---- MODULE Spec2Model ----
(***************************************************************************)
(* Crawl-and-scrape ingestion pipeline of your-agent:                      *)
(*   web_scraper/crawler/url_utils.py      URL normaliser / classifier     *)
(*   web_scraper/crawler/queue_manager.py  DiscoveryQueue, URLQueue        *)
(*   web_scraper/crawler/crawler.py        Crawler.start_crawling          *)
(*   web_scraper/scraper/scraper_worker.py ScraperWorker.run               *)
(*   web_scraper/scraper_runner.py         main (orchestrator)             *)
(*   utils/retry.py                        retry_async                     *)
(*                                                                         *)
(* A URL is a sequence of tokens; the delimiters "://", "/", "?", "=",     *)
(* "&" and "#" are tokens of their own, so urlparse / urlunparse are       *)
(* modelled as splitting and joining token sequences.                      *)
(*                                                                         *)
(* All tasks run on one asyncio event loop: a task runs without            *)
(* interruption from one suspension to the next.  asyncio.Queue() is       *)
(* unbounded, so put() never suspends; Lock.acquire() on a free lock does  *)
(* not suspend either.                                                     *)
(***************************************************************************)
EXTENDS Integers, Sequences, FiniteSets, TLC

\* ------------------------------------------------------------------------
\* Bounds of the model
\* ------------------------------------------------------------------------

\* number of scraper workers started by main (config.WORKER_COUNT)
WORKER_COUNT == 2

\* MAX_DEPTH is configurable; the model explores 0..MaxDepthCfg
MaxDepthCfg == 2

\* number of add calls a run of the queue harness (SpecQ) makes
MaxCalls == 3

\* largest "retries" argument given to retry_async on its own (SpecR)
MaxRetries == 3

\* number of differences applied one after the other to a url (SpecU)
MaxVary == 2

\* the most urls on the queue of the worker run on its own (SpecW)
MaxItems == 2

\* largest value of MAX_CHAT_TURNS the api is started with (SpecA)
MaxTurnsCfg == 2

\* number of requests made to the api (SpecA)
MaxRequests == 3

\* number of pages each of the two concurrent scraper runs saves (SpecS)
MaxPages == 2

\* ------------------------------------------------------------------------
\* Generic sequence helpers
\* ------------------------------------------------------------------------

Range(s) == { s[i] : i \in 1..Len(s) }

Last(s) == s[Len(s)]

\* index of the first element of s that is in set D, or Len(s)+1
FirstIn(s, D) ==
    IF \E i \in 1..Len(s) : s[i] \in D
    THEN CHOOSE i \in 1..Len(s) : s[i] \in D /\ \A j \in 1..(i-1) : s[j] \notin D
    ELSE Len(s) + 1

\* how many elements of s equal x
Count(s, x) == Cardinality({ i \in 1..Len(s) : s[i] = x })

\* ------------------------------------------------------------------------
\* url_utils.py : character-level tables
\* ------------------------------------------------------------------------

\* str.lower() on the tokens of the model
Lower(t) ==
    CASE t = "HTTPS"           -> "https"
      [] t = "EXAMPLE.COM"     -> "example.com"
      [] t = "WWW.EXAMPLE.COM" -> "www.example.com"
      [] t = "LOGO.PNG"        -> "logo.png"
      [] OTHER                 -> t

\* tokens whose lower-cased text ends with one of DISALLOWED_EXTENSIONS
DISALLOWED_EXTENSIONS == { "logo.png", "doc.pdf", "app.js", "style.css" }

TRACKING_PARAMS_PREFIXES == { "utm_source", "utm_medium" }

TRACKING_PARAMS_EXACT == { "gclid", "fbclid", "ref", "referrer", "_hsenc", "_hsmi" }

\* urllib.parse.unquote on one token (parse_qsl decodes keys and values)
Unquote(t) ==
    CASE t = "%26"   -> "&"
      [] t = "%23"   -> "#"
      [] t = "%3D"   -> "="
      [] t = "%2526" -> "%26"
      [] OTHER       -> t

\* ------------------------------------------------------------------------
\* urllib.parse.urlparse / urlunparse on token sequences
\* ------------------------------------------------------------------------

HasScheme(u) == Len(u) >= 2 /\ u[2] = "://"

AfterScheme(u) == IF HasScheme(u) THEN SubSeq(u, 3, Len(u)) ELSE u

urlparse(u) ==
    LET r    == AfterScheme(u)
        hasN == HasScheme(u) /\ Len(r) >= 1 /\ r[1] \notin {"/", "?", "#"}
        p    == IF hasN THEN SubSeq(r, 2, Len(r)) ELSE r
        iq   == FirstIn(p, {"?", "#"})
        path == SubSeq(p, 1, iq - 1)
        aq   == SubSeq(p, iq, Len(p))
        ih   == FirstIn(aq, {"#"})
        qry  == IF Len(aq) >= 1 /\ aq[1] = "?" THEN SubSeq(aq, 2, ih - 1) ELSE << >>
        frag == SubSeq(aq, ih + 1, Len(aq))
    IN  [ scheme   |-> IF HasScheme(u) THEN Lower(u[1]) ELSE "",
          netloc   |-> IF hasN THEN r[1] ELSE "",
          path     |-> path,
          query    |-> qry,
          fragment |-> frag ]

urlunparse(scheme, netloc, path, query, fragment) ==
    (IF scheme = "" THEN << >> ELSE <<scheme, "://">>)
    \o (IF netloc = "" THEN << >> ELSE <<netloc>>)
    \o path
    \o (IF query = << >> THEN << >> ELSE <<"?">> \o query)
    \o (IF fragment = << >> THEN << >> ELSE <<"#">> \o fragment)

\* ------------------------------------------------------------------------
\* url_utils._strip_tracking_params
\* ------------------------------------------------------------------------

\* str.split(sep) on a token sequence: the pieces between separators
RECURSIVE SplitOn(_, _)
SplitOn(s, sep) ==
    LET i == FirstIn(s, {sep})
    IN  IF i > Len(s) THEN <<s>>
        ELSE <<SubSeq(s, 1, i - 1)>> \o SplitOn(SubSeq(s, i + 1, Len(s)), sep)

UnquoteAll(s) == [ i \in 1..Len(s) |-> Unquote(s[i]) ]

\* parse_qsl(query, keep_blank_values=True): (key, value) pairs, decoded
RECURSIVE PairsOf(_)
PairsOf(pieces) ==
    IF pieces = << >> THEN << >>
    ELSE LET p  == Head(pieces)
             ie == FirstIn(p, {"="})
             kv == << UnquoteAll(SubSeq(p, 1, ie - 1)),
                      UnquoteAll(SubSeq(p, ie + 1, Len(p))) >>
         IN  (IF p = << >> THEN << >> ELSE <<kv>>) \o PairsOf(Tail(pieces))

parse_qsl(query) == PairsOf(SplitOn(query, "&"))

\* Fault variant of the tracking test: the "utm_" prefixes are forgotten
IsTrackingKey_exact_only(k) ==
    /\ Len(k) = 1
    /\ k[1] \in TRACKING_PARAMS_EXACT

IsTrackingKey(k) ==
    /\ Len(k) = 1
    /\ \/ k[1] \in TRACKING_PARAMS_EXACT
       \/ k[1] \in TRACKING_PARAMS_PREFIXES

RECURSIVE FilterPairs(_)
FilterPairs(pairs) ==
    IF pairs = << >> THEN << >>
    ELSE (IF IsTrackingKey(Head(pairs)[1]) THEN << >> ELSE <<Head(pairs)>>)
         \o FilterPairs(Tail(pairs))

\* "&".join(f"{k}={v}" ...)
RECURSIVE JoinPairs(_)
JoinPairs(pairs) ==
    IF pairs = << >> THEN << >>
    ELSE Head(pairs)[1] \o <<"=">> \o Head(pairs)[2]
         \o (IF Tail(pairs) = << >> THEN << >> ELSE <<"&">> \o JoinPairs(Tail(pairs)))

strip_tracking_params(query) ==
    IF query = << >> THEN << >>
    ELSE JoinPairs(FilterPairs(parse_qsl(query)))

\* ------------------------------------------------------------------------
\* url_utils.normalize_url
\* ------------------------------------------------------------------------

\* while "//" in path: path = path.replace("//", "/")
RECURSIVE CollapseSlashes(_)
CollapseSlashes(path) ==
    IF Len(path) < 2 THEN path
    ELSE IF path[1] = "/" /\ path[2] = "/"
         THEN CollapseSlashes(Tail(path))
         ELSE <<path[1]>> \o CollapseSlashes(Tail(path))

\* Fault variant of the trailing-slash rule: the slash is kept
StripTrailingSlash_keep(path) == path

\* if len(path) > 1 and path.endswith("/"): path = path[:-1]
StripTrailingSlash(path) ==
    IF Len(path) > 1 /\ Last(path) = "/" THEN SubSeq(path, 1, Len(path) - 1) ELSE path

normalize_url(u) ==
    LET parsed == urlparse(u)
        scheme == Lower(IF parsed.scheme = "" THEN "http" ELSE parsed.scheme)
        netloc == Lower(parsed.netloc)
        path   == IF parsed.path = << >> THEN <<"/">> ELSE parsed.path
        query  == strip_tracking_params(parsed.query)
    IN  urlunparse(scheme, netloc, StripTrailingSlash(CollapseSlashes(path)), query, << >>)

\* ------------------------------------------------------------------------
\* url_utils.is_internal_url / is_probably_html_url
\* ------------------------------------------------------------------------

\* Fault variant of strip_www: the prefix is kept
strip_www_keep(h) == h

strip_www(h) ==
    CASE h = "www.example.com" -> "example.com"
      [] h = "www.other.com"   -> "other.com"
      [] OTHER                 -> h

is_internal_url(url, base_url) ==
    LET parsed_base == urlparse(base_url)
        parsed_url  == urlparse(url)
    IN  /\ strip_www(Lower(parsed_url.netloc)) = strip_www(Lower(parsed_base.netloc))
        /\ parsed_url.scheme \in {"http", "https"}

\* "/wp-content/uploads/" in path
InUploads(path) ==
    \E i \in 1..(Len(path) - 4) :
        SubSeq(path, i, i + 4) = <<"/", "wp-content", "/", "uploads", "/">>

\* Fault variant of is_probably_html_url: the extension filter is left out
is_probably_html_url_uploads_only(url) ==
    LET path == [ i \in 1..Len(urlparse(url).path) |-> Lower(urlparse(url).path[i]) ]
    IN  ~InUploads(path)

is_probably_html_url(url) ==
    LET path == [ i \in 1..Len(urlparse(url).path) |-> Lower(urlparse(url).path[i]) ]
    IN  /\ ~InUploads(path)
        /\ ~(path # << >> /\ Last(path) \in DISALLOWED_EXTENSIONS)


\* ------------------------------------------------------------------------
\* The crawled web site (environment) and the run's configuration
\* ------------------------------------------------------------------------

Root  == <<"https", "://", "example.com", "/">>
About == <<"https", "://", "example.com", "/", "about">>
Team  == <<"https", "://", "example.com", "/", "team">>
History == <<"https", "://", "example.com", "/", "about", "/", "history">>
Careers == <<"https", "://", "example.com", "/", "team", "/", "careers">>
Search  == <<"https", "://", "example.com", "/", "search">>

\* The sites a run may crawl: the seed url given to main(), what the anchors of
\* each page (keyed by the url navigated to) evaluate to (el.href is absolute),
\* and the length of the site's longest chain of new links: a run with a larger
\* MAX_DEPTH is the same run.
Sites ==
    << \* a chain home -> about -> team; the home page's anchors differ only by
       \* trailing slash and tracking parameter, or leave the site
       [ seed  |-> Root,
         depth |-> 2,
         hrefs |-> ( Root  :> << About,
                                 <<"https", "://", "example.com", "/", "about", "/",
                                   "?", "utm_source", "=", "x">>,
                                 <<"https", "://", "cdn.example.com", "/", "logo.png">> >>
                  @@ About :> << <<"https", "://", "example.com", "/", "#", "top">>,
                                 <<"https", "://", "example.com", "/", "team",
                                   "?", "ref", "=", "nav">> >>
                  @@ Team  :> << Root >> ) ],
       \* two pages linked from the home page, which link to each other
       [ seed  |-> <<"HTTPS", "://", "WWW.EXAMPLE.COM">>,
         depth |-> 1,
         hrefs |-> ( <<"https", "://", "www.example.com", "/">> :>
                               << About,
                                  <<"https", "://", "other.com", "/", "about">>,
                                  <<"https", "://", "example.com", "/", "doc.pdf">>,
                                  <<"https", "://", "EXAMPLE.COM", "/", "/", "team", "/">> >>
                  @@ About :> << Team >>
                  @@ Team  :> << About,
                                 <<"https", "://", "example.com", "/", "doc.pdf">> >> ) ],
       \* a search page that links to one of its result pages, whose query
       \* value holds a doubly encoded ampersand
       [ seed  |-> Search,
         depth |-> 1,
         hrefs |-> ( Search :> << Search \o <<"?", "q", "=", "R", "%2526", "D">> >> ) ] >>

\* A site that branches: the home page links to /about and /team; /about
\* links on to /about/history and back to the home page, /team to /about and
\* on to /team/careers
Branching ==
    [ seed  |-> Root,
      depth |-> 2,
      hrefs |-> ( Root  :> << About, Team >>
               @@ About :> << History,
                              <<"https", "://", "example.com", "/", "#", "top">> >>
               @@ Team  :> << About, Careers >> ) ]

\* site Len(Sites) + 1 is the branching site, crawled in SpecC
AllSites == Sites \o << Branching >>

\* the shutdown sentinel: Python None, distinct from every url
None == << >>

Workers == 1..WORKER_COUNT

\* the tasks main creates: the crawler (0) and the workers
Tasks == 0..WORKER_COUNT

\* retry_async(..., retries=2, delay=1.5) in ScraperWorker.run
RETRIES == 2

VARIABLES
    site,             \* index into Sites: the site this run crawls
    MAX_DEPTH,        \* config.MAX_DEPTH of this run
    discovery_queue,  \* DiscoveryQueue: [queue, visited, unfinished, puts, log]
    scrape_queue,     \* URLQueue:       [queue, visited, unfinished, puts, log]
    main_pc,          \* position of scraper_runner.main
    browser,          \* playwright_utils._browser: "none", "open", "closed"
    crawler_pc,       \* position of Crawler.start_crawling
    cur,              \* (url, depth) the crawler is processing, or None
    worker_pc,        \* position of each ScraperWorker.run
    worker_url,       \* url each worker is processing, or None
    attempt,          \* retry_async's attempt number in each worker
    crawl_log,        \* history: <<url, depth, outcome>> per crawler iteration
    taken,            \* history: the items each worker dequeued, in order
    attempted,        \* history: the urls a worker called page.goto with
    db,               \* urls of the rows of the pages table
    pending,          \* queue harness: add_url_async tasks created, not yet run
    calls,            \* queue harness: number of add calls made so far
    redo,             \* queue harness: <<queue, url>> of the adds made for a url
                      \* that had already been dequeued and marked done
    rt,               \* one call of retry_async on its own: arguments, position,
                      \* and the history of its calls of the operation and waits
    probe,            \* the url_utils functions on their own: the urls given to
                      \* them and what they returned
    wk,               \* one ScraperWorker.run on its own: its position, the
                      \* items left on its queue and the calls it has made
    pw,               \* playwright_utils on its own: _browser, _playwright, the
                      \* position of each task inside new_page, and the
                      \* browsers launched, closed and used for pages
    api,              \* api.py on its own: _SESSION_HISTORY and the requests
                      \* in flight
    st                \* db_manager._DB_PATH shared by the scraper runs of
                      \* concurrent process_site calls, and the rows saved

vars == << site, MAX_DEPTH, discovery_queue, scrape_queue, main_pc, browser,
           crawler_pc, cur, worker_pc, worker_url, attempt, crawl_log, taken,
           attempted, db, pending, calls, redo, rt, probe, wk, pw, api, st >>

unit_vars    == << rt, probe, wk, pw, api, st >>
env_vars     == << site, MAX_DEPTH, unit_vars >>
harness_vars == << pending, calls, redo >>
worker_vars  == << worker_pc, worker_url, attempt, taken, attempted,
                   db >>
crawler_vars == << crawler_pc, cur, crawl_log >>

\* ------------------------------------------------------------------------
\* queue_manager.py
\* ------------------------------------------------------------------------

\* __init__: asyncio.Queue(), set().  History fields: "puts" is every
\* item ever put; "log" has one entry per add call: the normalized url and
\* whether the call saw it absent from visited
NewQueue ==
    [ queue |-> << >>, visited |-> {}, unfinished |-> 0, puts |-> << >>, log |-> << >> ]

\* Fault variant of Put: a last-in first-out queue (asyncio.LifoQueue)
Put_lifo(Q, item) ==
    [ Q EXCEPT !.queue = <<item>> \o @,
               !.unfinished = @ + 1,
               !.puts = Append(@, item) ]

\* asyncio.Queue.put_nowait / put on an unbounded queue
Put(Q, item) ==
    [ Q EXCEPT !.queue = Append(@, item),
               !.unfinished = @ + 1,
               !.puts = Append(@, item) ]

Observe(Q, norm, absent) ==
    [ Q EXCEPT !.log = Append(@, [ norm |-> norm, absent |-> absent ]) ]

\* Fault variant of VisitedAdd: the url is not recorded
VisitedAdd_forget(Q, norm) == Q

\* self.visited.add(norm)
VisitedAdd(Q, norm) == [ Q EXCEPT !.visited = @ \cup {norm} ]

\* Fault variant of URLQueue.add_url_async: a url already visited is put on
\* the queue again
URLQueue_add_url_async_again(Q, url) ==
    LET norm   == normalize_url(url)
        absent == norm \notin Q.visited
    IN  VisitedAdd(Put(Observe(Q, norm, absent), norm), norm)

\* URLQueue.add_url_async: the lock is free whenever a task runs, so the
\* acquire does not suspend and the body runs in the same step
URLQueue_add_url_async(Q, url) ==
    LET norm   == normalize_url(url)
        absent == norm \notin Q.visited
    IN  IF absent
        THEN VisitedAdd(Put(Observe(Q, norm, absent), norm), norm)
        ELSE Observe(Q, norm, absent)

\* Fault variant of URLQueue.add_url: the membership test uses the url as
\* given instead of its normalized form
URLQueue_add_url_raw_check(Q, url) ==
    LET norm   == normalize_url(url)
        absent == url \notin Q.visited
    IN  IF absent
        THEN VisitedAdd(Put(Observe(Q, norm, absent), norm), norm)
        ELSE Observe(Q, norm, absent)

\* URLQueue.add_url
URLQueue_add_url(Q, url) ==
    LET norm   == normalize_url(url)
        absent == norm \notin Q.visited
    IN  IF absent
        THEN VisitedAdd(Put(Observe(Q, norm, absent), norm), norm)
        ELSE Observe(Q, norm, absent)

\* Fault variant of add_sentinel_async: the sentinel goes through the visited
\* set like a url
add_sentinel_async_dedup(Q) ==
    IF None \in Q.visited THEN Q ELSE VisitedAdd(Put(Q, None), None)

\* URLQueue.add_sentinel_async
add_sentinel_async(Q) == Put(Q, None)

\* Fault variant of DiscoveryQueue.add_url_async: the membership test looks
\* at the items still pending instead of the visited set
DiscoveryQueue_add_url_async_pending_only(Q, url, depth) ==
    LET norm   == normalize_url(url)
        absent == \A i \in DOMAIN Q.queue : Q.queue[i][1] # norm
    IN  IF absent
        THEN VisitedAdd(Put(Observe(Q, norm, absent), <<norm, depth>>), norm)
        ELSE Observe(Q, norm, absent)

\* Fault variant of DiscoveryQueue.add_url_async: the item goes to the front
\* of the queue
DiscoveryQueue_add_url_async_front(Q, url, depth) ==
    LET norm   == normalize_url(url)
        absent == norm \notin Q.visited
    IN  IF absent
        THEN VisitedAdd(Put_lifo(Observe(Q, norm, absent), <<norm, depth>>), norm)
        ELSE Observe(Q, norm, absent)

\* Fault variant of DiscoveryQueue.add_url_async: a url seen again at another
\* depth is enqueued again with that depth
DiscoveryQueue_add_url_async_by_depth(Q, url, depth) ==
    LET norm   == normalize_url(url)
        absent == <<norm, depth>> \notin Range(Q.puts)
    IN  IF absent
        THEN VisitedAdd(Put(Observe(Q, norm, absent), <<norm, depth>>), norm)
        ELSE Observe(Q, norm, absent)

\* DiscoveryQueue.add_url_async
DiscoveryQueue_add_url_async(Q, url, depth) ==
    LET norm   == normalize_url(url)
        absent == norm \notin Q.visited
    IN  IF absent
        THEN VisitedAdd(Put(Observe(Q, norm, absent), <<norm, depth>>), norm)
        ELSE Observe(Q, norm, absent)

\* DiscoveryQueue.add_url
DiscoveryQueue_add_url(Q, url, depth) ==
    LET norm   == normalize_url(url)
        absent == norm \notin Q.visited
    IN  IF absent
        THEN VisitedAdd(Put(Observe(Q, norm, absent), <<norm, depth>>), norm)
        ELSE Observe(Q, norm, absent)

\* get_url: asyncio.Queue.get, which suspends the caller while the queue is empty
CanGet(Q) == Q.queue # << >>

Got(Q) == Head(Q.queue)

\* Fault variant of get_url: the item is read and left on the queue
AfterGet_peek(Q) == Q

AfterGet(Q) == [ Q EXCEPT !.queue = Tail(@) ]

\* task_done: asyncio.Queue.task_done
task_done(Q) == [ Q EXCEPT !.unfinished = @ - 1 ]

\* Fault variant of has_pending: the last item does not count
has_pending_many(Q) == Len(Q.queue) > 1

\* Fault variant of has_pending: it reports work when the queue is empty
has_pending_always(Q) == TRUE

\* has_pending
has_pending(Q) == Q.queue # << >>


\* no url_utils function has been called
ProbeIdle == [ pc |-> "idle" ]

\* ScraperWorker.run has not been called
WorkerIdle == [ pc |-> "idle", queue |-> << >>, attempt |-> 0, calls |-> << >> ]

\* playwright_utils has just been imported: _browser = None and
\* _playwright = None (0 stands for None, a launched instance is a
\* positive number); no task has called new_page
PlaywrightIdle ==
    [ _browser |-> 0, _playwright |-> 0,
      pc |-> [ t \in Tasks |-> "idle" ], browser |-> [ t \in Tasks |-> 0 ],
      page |-> [ t \in Tasks |-> 0 ],
      launched |-> {}, closed |-> {}, started |-> {}, stopped |-> {},
      main |-> "run" ]

\* the keys of _SESSION_HISTORY: the session a client names, and the key
\* answer uses for a request without session_id
SessionKeys == { "a", "__default__" }

\* api.py has not been imported: _SESSION_HISTORY = {} (a key that is absent
\* reads as the empty list everywhere it is read), no request has been made
ApiIdle ==
    [ pc |-> "idle", _MAX_TURNS |-> 0,
      _SESSION_HISTORY |-> [ k \in SessionKeys |-> << >> ],
      reqs |-> << >>, served |-> << >> ]

\* the scraper runs started by two concurrent /process_site requests
Runs == { 1, 2 }

\* the seed urls of the two requests, for two different sites
RunSeed == << <<"https", "://", "one.example", "/">>,
              <<"https", "://", "two.example:8080", "/">> >>

\* config.DB_PATH, as a path: directory, file name, suffix
DEFAULT_DB_PATH == << "data", "scraper", ".db" >>

\* db_manager has just been imported: _DB_PATH = DEFAULT_DB_PATH; no run has
\* started and no database file holds a row
StorageIdle ==
    [ _DB_PATH |-> DEFAULT_DB_PATH,
      pc |-> [ run \in Runs |-> "idle" ],
      db_path |-> [ run \in Runs |-> << >> ],
      saved |-> [ run \in Runs |-> 0 ],
      tables |-> {},
      rows |-> {} ]

\* retry_async has not been called
RetryIdle ==
    [ pc |-> "idle", retries |-> 0, delay |-> 0, backoff |-> 0, attempt |-> 0,
      outcomes |-> << >>, errors |-> << >>, waits |-> << >>,
      result |-> << >>, error |-> 0 ]

\* ------------------------------------------------------------------------
\* Initial state: main() has been called and has initialised the database
\* ------------------------------------------------------------------------

\* nothing has run yet: the queues are not created, no task exists
Fresh ==
    /\ discovery_queue = NewQueue
    /\ scrape_queue = NewQueue
    /\ main_pc = "start"
    /\ browser = "none"
    /\ crawler_pc = "unstarted"
    /\ cur = None
    /\ worker_pc = [ w \in Workers |-> "unstarted" ]
    /\ worker_url = [ w \in Workers |-> None ]
    /\ attempt = [ w \in Workers |-> 0 ]
    /\ crawl_log = << >>
    /\ taken = [ w \in Workers |-> << >> ]
    /\ attempted = {}
    /\ db = {}
    /\ pending = {}
    /\ calls = 0
    /\ redo = {}
    /\ rt = RetryIdle
    /\ probe = ProbeIdle
    /\ wk = WorkerIdle
    /\ pw = PlaywrightIdle
    /\ api = ApiIdle
    /\ st = StorageIdle

Init ==
    /\ site \in 1..Len(Sites)
    /\ MAX_DEPTH \in { d \in 0..MaxDepthCfg : d <= Sites[site].depth }
    /\ Fresh

seed == AllSites[site].seed

\* page.eval_on_selector_all("a[href]", ...) on the page at url
Hrefs(url) ==
    IF url \in DOMAIN AllSites[site].hrefs
    THEN AllSites[site].hrefs[url]
    ELSE << >>

\* ------------------------------------------------------------------------
\* scraper_runner.main
\* ------------------------------------------------------------------------

\* steps 3-7: create and seed the queues, create the crawler task and the
\* WORKER_COUNT worker tasks, then await crawler_task
MainStart ==
    /\ main_pc = "start"
    /\ discovery_queue' = DiscoveryQueue_add_url(discovery_queue, seed, 0)
    /\ crawler_pc' = "new_page"
    /\ worker_pc' = [ w \in Workers |-> "new_page" ]
    /\ main_pc' = "await_crawler"
    /\ UNCHANGED << env_vars, scrape_queue, browser, cur, worker_url, attempt,
                    crawl_log, taken, attempted, db, harness_vars >>

\* for _ in range(n): await scrape_queue.add_sentinel_async()
RECURSIVE Sentinels(_, _)
Sentinels(Q, n) == IF n <= 0 THEN Q ELSE Sentinels(add_sentinel_async(Q), n - 1)

\* Fault variant of step 8: one sentinel short
SignalShutdown_one_short(Q) == Sentinels(Q, WORKER_COUNT - 1)

\* step 8
SignalShutdown(Q) == Sentinels(Q, WORKER_COUNT)

\* Fault variant of step 7: main goes on as soon as the crawler task runs
CrawlerFinished_not_awaited == crawler_pc # "unstarted"

\* step 7: "await crawler_task" returns once start_crawling has returned
CrawlerFinished == crawler_pc = "done"

\* "await crawler_task" returns; step 8; then await asyncio.gather(*scraper_tasks)
MainSignal ==
    /\ main_pc = "await_crawler"
    /\ CrawlerFinished
    /\ scrape_queue' = SignalShutdown(scrape_queue)
    /\ main_pc' = "gather"
    /\ UNCHANGED << env_vars, discovery_queue, browser, crawler_vars, worker_vars,
                    harness_vars >>

\* Fault variant of step 9: the worker tasks are not awaited
MainGather_not_awaited ==
    /\ main_pc = "gather"
    /\ main_pc' = "close_browser"
    /\ UNCHANGED << env_vars, discovery_queue, scrape_queue, browser, crawler_vars,
                    worker_vars, harness_vars >>

\* gather returns once every worker task is done; step 10 calls close_browser,
\* which awaits _browser.close()
MainGather ==
    /\ main_pc = "gather"
    /\ \A w \in Workers : worker_pc[w] = "done"
    /\ main_pc' = "close_browser"
    /\ UNCHANGED << env_vars, discovery_queue, scrape_queue, browser, crawler_vars,
                    worker_vars, harness_vars >>

\* close_browser completes; main returns db_path
MainCloseBrowser ==
    /\ main_pc = "close_browser"
    /\ browser' = IF browser = "open" THEN "closed" ELSE browser
    /\ main_pc' = "done"
    /\ UNCHANGED << env_vars, discovery_queue, scrape_queue, crawler_vars,
                    worker_vars, harness_vars >>

\* ------------------------------------------------------------------------
\* crawler.Crawler.start_crawling
\* ------------------------------------------------------------------------

\* page = await new_page()
CrawlerNewPage ==
    /\ crawler_pc = "new_page"
    /\ browser' = "open"
    /\ crawler_pc' = "loop"
    /\ UNCHANGED << env_vars, discovery_queue, scrape_queue, main_pc, cur, crawl_log,
                    worker_vars, harness_vars >>

\* while has_pending(): url, depth = await get_url(); then page.goto(...) is awaited.
\* get_url awaits asyncio.Queue.get(), which returns the head item at once
\* when there is one and suspends the crawler otherwise: crawler_pc is then
\* "get_url", and since the crawler is the only task that puts items on the
\* discovery queue, the crawler stays there
CrawlerLoop ==
    /\ crawler_pc = "loop"
    /\ has_pending(discovery_queue)
    /\ IF CanGet(discovery_queue)
       THEN /\ cur' = Got(discovery_queue)
            /\ discovery_queue' = AfterGet(discovery_queue)
            /\ crawler_pc' = "goto"
       ELSE /\ crawler_pc' = "get_url"
            /\ UNCHANGED << cur, discovery_queue >>
    /\ UNCHANGED << env_vars, scrape_queue, main_pc, browser, crawl_log, worker_vars,
                    harness_vars >>

\* has_pending() is false: the loop exits; page.close(), which touches no
\* state of the model, is awaited and start_crawling returns
CrawlerExit ==
    /\ crawler_pc = "loop"
    /\ ~has_pending(discovery_queue)
    /\ crawler_pc' = "done"
    /\ UNCHANGED << env_vars, discovery_queue, scrape_queue, main_pc, browser, cur,
                    crawl_log, worker_vars, harness_vars >>

\* page.goto succeeded: the url goes on the scrape queue, then the anchors are read
CrawlerGotoOk ==
    /\ crawler_pc = "goto"
    /\ scrape_queue' = URLQueue_add_url_async(scrape_queue, cur[1])
    /\ crawler_pc' = "links"
    /\ UNCHANGED << env_vars, discovery_queue, main_pc, browser, cur, crawl_log,
                    worker_vars, harness_vars >>

\* Fault variant of the crawler's handler: the exception leaves start_crawling
CrawlerOnError_propagates(outcome) ==
    /\ discovery_queue' = task_done(discovery_queue)
    /\ crawl_log' = Append(crawl_log, <<cur[1], cur[2], outcome>>)
    /\ cur' = None
    /\ crawler_pc' = "raised"
    /\ UNCHANGED << env_vars, scrape_queue, main_pc, browser, worker_vars, harness_vars >>

\* Fault variant of the crawler's handler: task_done() is skipped on an error
CrawlerOnError_no_done(outcome) ==
    /\ crawl_log' = Append(crawl_log, <<cur[1], cur[2], outcome>>)
    /\ cur' = None
    /\ crawler_pc' = "loop"
    /\ UNCHANGED << env_vars, discovery_queue, scrape_queue, main_pc, browser,
                    worker_vars, harness_vars >>

\* except Exception: log; finally: discovery_queue.task_done(); back to the while
CrawlerOnError(outcome) ==
    /\ discovery_queue' = task_done(discovery_queue)
    /\ crawl_log' = Append(crawl_log, <<cur[1], cur[2], outcome>>)
    /\ cur' = None
    /\ crawler_pc' = "loop"
    /\ UNCHANGED << env_vars, scrape_queue, main_pc, browser, worker_vars, harness_vars >>

\* Fault variant of a failed page.goto: the url is handed to the scrapers
\* all the same
CrawlerGotoFail_scrape_anyway ==
    /\ crawler_pc = "goto"
    /\ scrape_queue' = URLQueue_add_url_async(scrape_queue, cur[1])
    /\ discovery_queue' = task_done(discovery_queue)
    /\ crawl_log' = Append(crawl_log, <<cur[1], cur[2], "nav_failed">>)
    /\ cur' = None
    /\ crawler_pc' = "loop"
    /\ UNCHANGED << env_vars, main_pc, browser, worker_vars, harness_vars >>

\* page.goto raised (timeout, navigation error)
CrawlerGotoFail ==
    /\ crawler_pc = "goto"
    /\ CrawlerOnError("nav_failed")

\* page.eval_on_selector_all raised
CrawlerLinksFail ==
    /\ crawler_pc = "links"
    /\ CrawlerOnError("links_failed")

\* for link in links: normalize, filter, discovery_queue.add_url_async(link, depth + 1)
RECURSIVE EnqueueLinks(_, _, _, _)
EnqueueLinks(Q, links, depth, base_url) ==
    IF links = << >> THEN Q
    ELSE LET link == normalize_url(Head(links))
             Q1   == IF is_internal_url(link, base_url) /\ is_probably_html_url(link)
                     THEN DiscoveryQueue_add_url_async(Q, link, depth + 1)
                     ELSE Q
         IN  EnqueueLinks(Q1, Tail(links), depth, base_url)

\* Fault variant of the depth test: "<=" for "<"
DepthAllows_inclusive(depth, max_depth) == depth <= max_depth

\* if depth < MAX_DEPTH: ...
DepthAllows(depth, max_depth) == depth < max_depth

\* the anchors were read: enqueue the children, then finally: task_done()
CrawlerLinksOk ==
    /\ crawler_pc = "links"
    /\ discovery_queue' =
          task_done(IF DepthAllows(cur[2], MAX_DEPTH)
                    THEN EnqueueLinks(discovery_queue, Hrefs(cur[1]), cur[2], seed)
                    ELSE discovery_queue)
    /\ crawl_log' = Append(crawl_log, <<cur[1], cur[2], "ok">>)
    /\ cur' = None
    /\ crawler_pc' = "loop"
    /\ UNCHANGED << env_vars, scrape_queue, main_pc, browser, worker_vars, harness_vars >>


\* ------------------------------------------------------------------------
\* scraper_worker.ScraperWorker.run and utils/retry.retry_async
\* ------------------------------------------------------------------------

others_unchanged == << env_vars, discovery_queue, main_pc, crawler_vars, harness_vars >>

\* page = await new_page()
WorkerNewPage(w) ==
    /\ worker_pc[w] = "new_page"
    /\ browser' = "open"
    /\ worker_pc' = [ worker_pc EXCEPT ![w] = "get" ]
    /\ UNCHANGED << others_unchanged, scrape_queue, worker_url, attempt, taken,
                    attempted, db >>

\* if url is None
IsSentinel(item) == item = None

\* url = await get_url() returned a url: retry_async starts its first attempt
WorkerGetUrl(w) ==
    /\ worker_pc[w] = "get"
    /\ CanGet(scrape_queue)
    /\ ~IsSentinel(Got(scrape_queue))
    /\ scrape_queue' = AfterGet(scrape_queue)
    /\ taken' = [ taken EXCEPT ![w] = Append(@, Got(scrape_queue)) ]
    /\ worker_url' = [ worker_url EXCEPT ![w] = Got(scrape_queue) ]
    /\ attempt' = [ attempt EXCEPT ![w] = 1 ]
    /\ worker_pc' = [ worker_pc EXCEPT ![w] = "goto" ]
    /\ UNCHANGED << others_unchanged, browser, attempted, db >>

\* Fault variant of the sentinel branch: no "break"
AfterSentinel_no_break == "get"

\* the "break" after the sentinel's task_done(): page.close(), which touches
\* no state of the model, is awaited and run returns
AfterSentinel == "done"

\* url = await get_url() returned the sentinel: task_done(); break
WorkerGetSentinel(w) ==
    /\ worker_pc[w] = "get"
    /\ CanGet(scrape_queue)
    /\ IsSentinel(Got(scrape_queue))
    /\ scrape_queue' = task_done(AfterGet(scrape_queue))
    /\ taken' = [ taken EXCEPT ![w] = Append(@, Got(scrape_queue)) ]
    /\ worker_pc' = [ worker_pc EXCEPT ![w] = AfterSentinel ]
    /\ UNCHANGED << others_unchanged, browser, worker_url, attempt, attempted, db >>

\* Fault variant of the end of an iteration: no "finally", task_done() is
\* left out
WorkerEndIteration_no_done(w) ==
    /\ scrape_queue' = scrape_queue
    /\ worker_url' = [ worker_url EXCEPT ![w] = None ]
    /\ attempt' = [ attempt EXCEPT ![w] = 0 ]
    /\ worker_pc' = [ worker_pc EXCEPT ![w] = "get" ]

\* the end of an iteration: finally: url_queue.task_done(); back to "while True"
WorkerEndIteration(w) ==
    /\ scrape_queue' = task_done(scrape_queue)
    /\ worker_url' = [ worker_url EXCEPT ![w] = None ]
    /\ attempt' = [ attempt EXCEPT ![w] = 0 ]
    /\ worker_pc' = [ worker_pc EXCEPT ![w] = "get" ]

\* Fault variant of the worker's handler: the exception leaves run
WorkerOnError_propagates(w) ==
    /\ scrape_queue' = task_done(scrape_queue)
    /\ worker_url' = [ worker_url EXCEPT ![w] = None ]
    /\ attempt' = [ attempt EXCEPT ![w] = 0 ]
    /\ worker_pc' = [ worker_pc EXCEPT ![w] = "raised" ]

\* except Exception as e: logger.error(...); then the finally clause
WorkerOnError(w) == WorkerEndIteration(w)

\* retry_async: the awaited page.goto returned
WorkerGotoOk(w) ==
    /\ worker_pc[w] = "goto"
    /\ attempted' = attempted \cup { worker_url[w] }
    /\ worker_pc' = [ worker_pc EXCEPT ![w] = "scrape" ]
    /\ UNCHANGED << others_unchanged, browser, scrape_queue, worker_url, attempt,
                    taken, db >>

\* Fault variant of the test for the last attempt: one attempt too many
LastAttempt_late(a, retries) == a = retries + 1

\* retry_async: "if attempt == retries: raise"
LastAttempt(a, retries) == a = retries

\* retry_async: page.goto raised before the last attempt: asyncio.sleep(wait),
\* then the for loop makes the next attempt
WorkerGotoRetry(w) ==
    /\ worker_pc[w] = "goto"
    /\ ~LastAttempt(attempt[w], RETRIES)
    /\ attempted' = attempted \cup { worker_url[w] }
    /\ attempt' = [ attempt EXCEPT ![w] = @ + 1 ]
    /\ UNCHANGED << others_unchanged, browser, scrape_queue, worker_pc, worker_url,
                    taken, db >>

\* Fault variant of the last failed attempt: retry_async returns instead of
\* raising, and run goes on to extract_content
WorkerGotoFail_goes_on(w) ==
    /\ worker_pc[w] = "goto"
    /\ LastAttempt(attempt[w], RETRIES)
    /\ attempted' = attempted \cup { worker_url[w] }
    /\ worker_pc' = [ worker_pc EXCEPT ![w] = "scrape" ]
    /\ UNCHANGED << others_unchanged, browser, scrape_queue, worker_url, attempt,
                    taken, db >>

\* retry_async: page.goto raised on the last attempt: the exception reaches run
WorkerGotoFail(w) ==
    /\ worker_pc[w] = "goto"
    /\ LastAttempt(attempt[w], RETRIES)
    /\ attempted' = attempted \cup { worker_url[w] }
    /\ WorkerOnError(w)
    /\ UNCHANGED << others_unchanged, browser, taken, db >>

\* What the rest of an iteration, from extract_content to random_delay, can do.
\* These calls touch no state another task reads, so the model takes them as
\* one step:
\*   "ok"              extract, save_page, save_page_to_file, random_delay returned
\*   "save_swallowed"  as "ok", but execute/commit raised inside save_page's try,
\*                     which logs the error and returns normally
\*   "extract_failed"  extract_content raised
\*   "storage_failed"  aiosqlite.connect raised, outside save_page's try
\*   "file_failed"     save_page_to_file raised, after save_page committed
Outcomes == { "ok", "save_swallowed", "extract_failed", "storage_failed", "file_failed" }

\* Fault variant of Saves: the row is written although extract_content raised
Saves_without_extract(outcome) == outcome \in { "ok", "file_failed", "extract_failed" }

\* the outcomes in which save_page committed its row
Saves(outcome) == outcome \in { "ok", "file_failed" }

Raises(outcome) == outcome \in { "extract_failed", "storage_failed", "file_failed" }

\* the iteration ran to the end of the try block; then the finally clause
WorkerScrapeOk(w, outcome) ==
    /\ worker_pc[w] = "scrape"
    /\ ~Raises(outcome)
    /\ db' = IF Saves(outcome) THEN db \cup { worker_url[w] } ELSE db
    /\ WorkerEndIteration(w)
    /\ UNCHANGED << others_unchanged, browser, taken, attempted >>

\* extract_content, save_page or save_page_to_file raised
WorkerScrapeFail(w, outcome) ==
    /\ worker_pc[w] = "scrape"
    /\ Raises(outcome)
    /\ db' = IF Saves(outcome) THEN db \cup { worker_url[w] } ELSE db
    /\ WorkerOnError(w)
    /\ UNCHANGED << others_unchanged, browser, taken, attempted >>

\* ------------------------------------------------------------------------
\* The pipeline
\* ------------------------------------------------------------------------

MainStep == MainStart \/ MainSignal \/ MainGather \/ MainCloseBrowser

CrawlerStep ==
    \/ CrawlerNewPage
    \/ CrawlerLoop
    \/ CrawlerExit
    \/ CrawlerGotoFail
    \/ CrawlerGotoOk
    \/ CrawlerLinksFail
    \/ CrawlerLinksOk

WorkerStep(w) ==
    \/ WorkerNewPage(w)
    \/ WorkerGetUrl(w)
    \/ WorkerGetSentinel(w)
    \/ WorkerGotoOk(w)
    \/ WorkerGotoRetry(w)
    \/ WorkerGotoFail(w)
    \/ \E o \in Outcomes : WorkerScrapeOk(w, o)
    \/ \E o \in Outcomes : WorkerScrapeFail(w, o)

Next == MainStep \/ CrawlerStep \/ \E w \in Workers : WorkerStep(w)

Spec == Init /\ [][Next]_vars

\* The event loop runs every ready task, and every navigation returns or
\* times out (NAV_TIMEOUT_MS): a step that can be taken is eventually taken.
FairSpec == Spec /\ WF_vars(Next)

\* ------------------------------------------------------------------------
\* The crawler task on the branching site.  The workers read and write the
\* scrape queue only, so what the crawler dequeues, navigates to and enqueues
\* on the discovery queue is the same whatever the workers do: here their
\* tasks are created and never scheduled.
\* ------------------------------------------------------------------------

InitC ==
    /\ site = Len(AllSites)
    /\ MAX_DEPTH \in { d \in 0..MaxDepthCfg : d <= Branching.depth }
    /\ Fresh

NextC == MainStart \/ CrawlerStep

SpecC == InitC /\ [][NextC]_vars


\* ------------------------------------------------------------------------
\* The two queue classes on their own: any tasks of one event loop calling
\* add_url_async (as tasks that run in any order), add_url, add_sentinel,
\* get_url and task_done
\* ------------------------------------------------------------------------

HarnessUrls ==
    { About,
      <<"https", "://", "example.com", "/", "about", "/", "?", "utm_source", "=", "x">>,
      <<"HTTPS", "://", "EXAMPLE.COM", "/", "/", "about", "#", "top">>,
      Team }

pipeline_vars == << env_vars, main_pc, browser, crawler_vars, worker_vars >>

InitQ == Init /\ site = 1 /\ MAX_DEPTH = 0

\* the url of this add was put earlier, and every item put has been
\* dequeued and marked done
DoneBefore(Q, url) ==
    /\ normalize_url(url) \in Q.visited
    /\ Q.queue = << >>
    /\ Q.unfinished = 0

\* asyncio.create_task(discovery_queue.add_url_async(url, depth))
DQCreateTask(url) ==
    /\ calls < MaxCalls
    /\ calls' = calls + 1
    /\ pending' = pending \cup { [ id |-> calls + 1, q |-> "discovery", url |-> url ] }
    /\ UNCHANGED << pipeline_vars, discovery_queue, scrape_queue, redo >>

\* asyncio.create_task(scrape_queue.add_url_async(url))
SQCreateTask(url) ==
    /\ calls < MaxCalls
    /\ calls' = calls + 1
    /\ pending' = pending \cup { [ id |-> calls + 1, q |-> "scrape", url |-> url ] }
    /\ UNCHANGED << pipeline_vars, discovery_queue, scrape_queue, redo >>

\* the event loop runs a created DiscoveryQueue.add_url_async task; its depth
\* argument is the number of the call
DQRunTask(t) ==
    /\ t \in pending
    /\ t.q = "discovery"
    /\ discovery_queue' = DiscoveryQueue_add_url_async(discovery_queue, t.url, t.id)
    /\ redo' = IF DoneBefore(discovery_queue, t.url)
               THEN redo \cup { <<"discovery", normalize_url(t.url)>> } ELSE redo
    /\ pending' = pending \ {t}
    /\ UNCHANGED << pipeline_vars, scrape_queue, calls >>

\* the event loop runs a created URLQueue.add_url_async task
SQRunTask(t) ==
    /\ t \in pending
    /\ t.q = "scrape"
    /\ scrape_queue' = URLQueue_add_url_async(scrape_queue, t.url)
    /\ redo' = IF DoneBefore(scrape_queue, t.url)
               THEN redo \cup { <<"scrape", normalize_url(t.url)>> } ELSE redo
    /\ pending' = pending \ {t}
    /\ UNCHANGED << pipeline_vars, discovery_queue, calls >>

\* discovery_queue.add_url(url, depth), called by the running task
DQAddUrl(url) ==
    /\ calls < MaxCalls
    /\ calls' = calls + 1
    /\ discovery_queue' = DiscoveryQueue_add_url(discovery_queue, url, calls + 1)
    /\ redo' = IF DoneBefore(discovery_queue, url)
               THEN redo \cup { <<"discovery", normalize_url(url)>> } ELSE redo
    /\ UNCHANGED << pipeline_vars, scrape_queue, pending >>

\* scrape_queue.add_url(url), called by the running task
SQAddUrl(url) ==
    /\ calls < MaxCalls
    /\ calls' = calls + 1
    /\ scrape_queue' = URLQueue_add_url(scrape_queue, url)
    /\ redo' = IF DoneBefore(scrape_queue, url)
               THEN redo \cup { <<"scrape", normalize_url(url)>> } ELSE redo
    /\ UNCHANGED << pipeline_vars, discovery_queue, pending >>

\* scrape_queue.add_sentinel_async()
SQAddSentinel ==
    /\ calls < MaxCalls
    /\ calls' = calls + 1
    /\ scrape_queue' = add_sentinel_async(scrape_queue)
    /\ UNCHANGED << pipeline_vars, discovery_queue, pending, redo >>

\* discovery_queue.get_url() by a consumer
DQGetUrl ==
    /\ CanGet(discovery_queue)
    /\ discovery_queue' = AfterGet(discovery_queue)
    /\ UNCHANGED << pipeline_vars, scrape_queue, harness_vars >>

\* scrape_queue.get_url() by a consumer
SQGetUrl ==
    /\ CanGet(scrape_queue)
    /\ scrape_queue' = AfterGet(scrape_queue)
    /\ UNCHANGED << pipeline_vars, discovery_queue, harness_vars >>

\* items dequeued and not yet marked done
InFlight(Q) == Q.unfinished - Len(Q.queue)

\* discovery_queue.task_done() by a consumer, for an item it dequeued
DQTaskDone ==
    /\ InFlight(discovery_queue) > 0
    /\ discovery_queue' = task_done(discovery_queue)
    /\ UNCHANGED << pipeline_vars, scrape_queue, harness_vars >>

\* scrape_queue.task_done() by a consumer, for an item it dequeued
SQTaskDone ==
    /\ InFlight(scrape_queue) > 0
    /\ scrape_queue' = task_done(scrape_queue)
    /\ UNCHANGED << pipeline_vars, discovery_queue, harness_vars >>

NextQ ==
    \/ \E url \in HarnessUrls : DQCreateTask(url)
    \/ \E url \in HarnessUrls : SQCreateTask(url)
    \/ \E t \in pending : DQRunTask(t)
    \/ \E t \in pending : SQRunTask(t)
    \/ \E url \in HarnessUrls : DQAddUrl(url)
    \/ \E url \in HarnessUrls : SQAddUrl(url)
    \/ SQAddSentinel
    \/ DQGetUrl
    \/ SQGetUrl
    \/ DQTaskDone
    \/ SQTaskDone

SpecQ == InitQ /\ [][NextQ]_vars


\* ------------------------------------------------------------------------
\* utils/retry.retry_async on its own, for any arguments and any operation.
\* Times are in milliseconds.  rt.outcomes has one entry per call of the
\* operation, rt.errors the exceptions it raised (the exception of attempt i
\* is i), rt.waits one entry per asyncio.sleep
\* ------------------------------------------------------------------------

\* the "delay" and "backoff" arguments tried: the worker's delay=1.5 and the
\* defaults delay=2, backoff=2, and another factor
Delays == { 1500, 2000 }

Backoffs == { 2, 3 }

\* random.uniform(0, 1), in milliseconds
JitterMs == { 0, 500, 1000 }

\* backoff ** n
RECURSIVE Pow(_, _)
Pow(b, n) == IF n <= 0 THEN 1 ELSE b * Pow(b, n - 1)

\* wait = delay * (backoff ** (attempt - 1)) + random.uniform(0, 1)
Wait(delay, backoff, a, jitter) == delay * Pow(backoff, a - 1) + jitter

\* the value the operation returns when its call number a succeeds
ValueOf(a) == <<"value", a>>

\* the value of a function that falls off its end
ReturnsNone == <<"None">>

\* system_vars: the pipeline and the queue harness
system_vars == << site, MAX_DEPTH, discovery_queue, scrape_queue, main_pc, browser,
                  crawler_vars, worker_vars, harness_vars >>

\* retry_async(coro_func, retries, delay, backoff) is called: the for loop
\* starts its first iteration and calls the operation, or, when
\* range(1, retries + 1) is empty, the function falls off its end
RetryStart(retries, delay, backoff) ==
    /\ rt.pc = "idle"
    /\ rt' = IF retries >= 1
             THEN [ rt EXCEPT !.pc = "call", !.retries = retries, !.delay = delay,
                              !.backoff = backoff, !.attempt = 1 ]
             ELSE [ rt EXCEPT !.pc = "returned", !.retries = retries, !.delay = delay,
                              !.backoff = backoff, !.result = ReturnsNone ]
    /\ UNCHANGED << system_vars, probe, wk, pw, api, st >>

\* return await coro_func(): the operation returned
RetryCallOk ==
    /\ rt.pc = "call"
    /\ rt' = [ rt EXCEPT !.pc = "returned",
                         !.outcomes = Append(@, "ok"),
                         !.result = ValueOf(rt.attempt) ]
    /\ UNCHANGED << system_vars, probe, wk, pw, api, st >>

\* Fault variant of the bare "raise": the first failure is raised
Reraised_first(errors) == Head(errors)

\* the bare "raise" in the except clause re-raises the exception just caught
Reraised(errors) == Last(errors)

\* the operation raised and "attempt == retries": raise
RetryCallFailLast ==
    /\ rt.pc = "call"
    /\ LastAttempt(rt.attempt, rt.retries)
    /\ rt' = [ rt EXCEPT !.pc = "raised",
                         !.outcomes = Append(@, "fail"),
                         !.errors = Append(@, rt.attempt),
                         !.error = Reraised(Append(rt.errors, rt.attempt)) ]
    /\ UNCHANGED << system_vars, probe, wk, pw, api, st >>

\* the operation raised before the last attempt: compute wait, asyncio.sleep(wait)
RetryCallFailWait(jitter) ==
    /\ rt.pc = "call"
    /\ ~LastAttempt(rt.attempt, rt.retries)
    /\ rt' = [ rt EXCEPT !.pc = "sleep",
                         !.outcomes = Append(@, "fail"),
                         !.errors = Append(@, rt.attempt),
                         !.waits = Append(@, [ wait |-> Wait(rt.delay, rt.backoff, rt.attempt, jitter),
                                               jitter |-> jitter ]) ]
    /\ UNCHANGED << system_vars, probe, wk, pw, api, st >>

\* asyncio.sleep returned: the for loop's next iteration calls the operation
RetrySleepDone ==
    /\ rt.pc = "sleep"
    /\ rt' = [ rt EXCEPT !.pc = "call", !.attempt = @ + 1 ]
    /\ UNCHANGED << system_vars, probe, wk, pw, api, st >>

InitR == Init /\ site = 1 /\ MAX_DEPTH = 0

NextR ==
    \/ \E retries \in 0..MaxRetries, delay \in Delays, backoff \in Backoffs :
           RetryStart(retries, delay, backoff)
    \/ RetryCallOk
    \/ RetryCallFailLast
    \/ \E jitter \in JitterMs : RetryCallFailWait(jitter)
    \/ RetrySleepDone

SpecR == InitR /\ [][NextR]_vars

\* ------------------------------------------------------------------------
\* url_utils on its own: normalize_url and is_internal_url applied to urls
\* put together from parts
\* ------------------------------------------------------------------------

Schemes == { "https", "HTTPS", "http", "ftp" }

\* the host texts tried (the netloc of the url, a port included), each with
\* the site it names once case and a leading "www." are ignored
HostTable ==
    { [ text |-> "example.com",     site |-> "example.com" ],
      [ text |-> "www.example.com", site |-> "example.com" ],
      [ text |-> "WWW.EXAMPLE.COM", site |-> "example.com" ],
      [ text |-> "other.com",       site |-> "other.com" ],
      [ text |-> "www.other.com",   site |-> "other.com" ],
      [ text |-> "cdn.example.com", site |-> "cdn.example.com" ],
      [ text |-> "example.com:8080", site |-> "example.com:8080" ] }

Paths == { << >>, <<"/">>, <<"/", "about">>, <<"/", "a", "/", "b">> }

Queries ==
    { << >>,
      <<"q", "=", "1">>,
      <<"q", "=", "%26", "a">>,
      <<"q", "=", "%23", "a">>,
      <<"q", "=", "%2526">>,
      <<"ref", "=", "nav", "&", "q", "=", "1">> }

Fragments == { << >>, <<"top">> }

UrlParts ==
    [ scheme : Schemes, host : HostTable, path : Paths, query : Queries,
      fragment : Fragments ]

\* the text of the url with these parts
Build(parts) ==
    << parts.scheme, "://", parts.host.text >>
    \o parts.path
    \o (IF parts.query = << >> THEN << >> ELSE <<"?">> \o parts.query)
    \o (IF parts.fragment = << >> THEN << >> ELSE <<"#">> \o parts.fragment)

\* the tracking parameters tried: one matched by its "utm_" prefix, one exactly
TrackingPairs == { <<"utm_source", "=", "x">>, <<"ref", "=", "nav">> }

\* the ways the claims let two urls differ: another fragment, one more
\* tracking parameter (in front or at the end of the query), a trailing
\* slash on a non-root path, a repeated slash in the path
Variations(parts) ==
    { [ parts EXCEPT !.fragment = f ] : f \in Fragments \ { parts.fragment } }
    \cup { [ parts EXCEPT !.query = IF @ = << >> THEN t ELSE t \o <<"&">> \o @ ] :
               t \in TrackingPairs }
    \cup { [ parts EXCEPT !.query = IF @ = << >> THEN t ELSE @ \o <<"&">> \o t ] :
               t \in TrackingPairs }
    \cup { [ parts EXCEPT !.path = Append(@, "/") ] :
               x \in { y \in {1} : Len(parts.path) > 1 /\ Last(parts.path) # "/" } }
    \cup { [ parts EXCEPT !.path = SubSeq(@, 1, i) \o <<"/">> \o SubSeq(@, i + 1, Len(@)) ] :
               i \in { j \in DOMAIN parts.path : parts.path[j] = "/" } }

\* the urls given to normalize_url
NormParts ==
    { parts \in UrlParts :
          /\ parts.scheme \in { "https", "HTTPS" }
          /\ parts.host.text \in { "example.com", "WWW.EXAMPLE.COM" } }

\* the urls given to is_internal_url
InternalParts ==
    [ scheme : Schemes, host : HostTable, path : { <<"/", "x">> }, query : { << >> },
      fragment : { << >> } ]

\* the base urls given to is_internal_url
BaseParts ==
    { parts \in UrlParts :
          /\ parts.scheme \in { "https", "ftp" }
          /\ parts.path = << >>
          /\ parts.query = << >>
          /\ parts.fragment = << >> }

\* a url is chosen and n1 = normalize_url(url) is computed
ProbeNormalize(parts) ==
    /\ probe.pc = "idle"
    /\ probe' = [ pc |-> "normalized", parts |-> parts, url |-> Build(parts),
                  n1 |-> normalize_url(Build(parts)) ]
    /\ UNCHANGED << system_vars, rt, wk, pw, api, st >>

\* n2 = normalize_url(n1)
ProbeNormalizeAgain ==
    /\ probe.pc = "normalized"
    /\ probe' = [ pc |-> "twice", parts |-> probe.parts, url |-> probe.url,
                  n1 |-> probe.n1, n2 |-> normalize_url(probe.n1) ]
    /\ UNCHANGED << system_vars, rt, wk, pw, api, st >>

\* nv = normalize_url(variant), for a url that differs from the one chosen,
\* or from the last variant, in one of the ways of Variations; "kinds" counts
\* the variations applied
ProbeVary ==
    /\ probe.pc \in { "normalized", "varied" }
    /\ (IF probe.pc = "varied" THEN probe.kinds ELSE 0) < MaxVary
    /\ \E vparts \in Variations(IF probe.pc = "varied" THEN probe.vparts ELSE probe.parts) :
           probe' = [ pc |-> "varied", parts |-> probe.parts, url |-> probe.url,
                      n1 |-> probe.n1, vparts |-> vparts, variant |-> Build(vparts),
                      kinds |-> (IF probe.pc = "varied" THEN probe.kinds ELSE 0) + 1,
                      nv |-> normalize_url(Build(vparts)) ]
    /\ UNCHANGED << system_vars, rt, wk, pw, api, st >>

\* internal = is_internal_url(url, base_url)
ProbeInternal(parts, base) ==
    /\ probe.pc = "idle"
    /\ probe' = [ pc |-> "internal", parts |-> parts, url |-> Build(parts),
                  base |-> base, base_url |-> Build(base),
                  internal |-> is_internal_url(Build(parts), Build(base)) ]
    /\ UNCHANGED << system_vars, rt, wk, pw, api, st >>

InitU == Init /\ site = 1 /\ MAX_DEPTH = 0

NextU ==
    \/ \E parts \in NormParts : ProbeNormalize(parts)
    \/ ProbeNormalizeAgain
    \/ ProbeVary
    \/ \E parts \in InternalParts, base \in BaseParts : ProbeInternal(parts, base)

SpecU == InitU /\ [][NextU]_vars

\* ------------------------------------------------------------------------
\* ScraperWorker.run on its own: one worker and a scrape queue that holds
\* some urls and, behind them, the worker's sentinel.  wk.calls is the
\* history of the calls run makes, in order.
\* ------------------------------------------------------------------------

\* the scrape queues the worker is started on: up to MaxItems urls
WorkQueues ==
    UNION { [ 1..n -> { About, Team, History } ] : n \in 0..MaxItems }

\* ScraperWorker(...).run() is called: page = await new_page()
RunStart(items) ==
    /\ wk.pc = "idle"
    /\ wk' = [ wk EXCEPT !.pc = "get", !.queue = items \o << None >> ]
    /\ UNCHANGED << system_vars, rt, probe, pw, api, st >>

\* url = await get_url(); the sentinel: task_done(), break, page.close()
RunGet ==
    /\ wk.pc = "get"
    /\ wk.queue # << >>
    /\ wk' = IF IsSentinel(Head(wk.queue))
             THEN [ wk EXCEPT !.pc = "done", !.queue = Tail(@),
                              !.calls = @ \o << "get_sentinel", "task_done" >> ]
             ELSE [ wk EXCEPT !.pc = "goto", !.queue = Tail(@), !.attempt = 1,
                              !.calls = Append(@, "get_url") ]
    /\ UNCHANGED << system_vars, rt, probe, pw, api, st >>

\* retry_async: page.goto returned
RunGotoOk ==
    /\ wk.pc = "goto"
    /\ wk' = [ wk EXCEPT !.pc = "extract", !.calls = Append(@, "goto") ]
    /\ UNCHANGED << system_vars, rt, probe, pw, api, st >>

\* retry_async: page.goto raised.  On the last attempt the exception reaches
\* run's handler and the finally clause; before it, asyncio.sleep(wait)
RunGotoFail ==
    /\ wk.pc = "goto"
    /\ wk' = IF LastAttempt(wk.attempt, RETRIES)
             THEN [ wk EXCEPT !.pc = "get", !.attempt = 0,
                              !.calls = @ \o << "goto", "task_done" >> ]
             ELSE [ wk EXCEPT !.attempt = @ + 1,
                              !.calls = @ \o << "goto", "sleep" >> ]
    /\ UNCHANGED << system_vars, rt, probe, pw, api, st >>

\* the calls of the rest of the try block, up to the one that raises
CallsOf(outcome) ==
    CASE outcome = "extract_failed" -> << "extract_content" >>
      [] outcome = "storage_failed" -> << "extract_content", "save_page" >>
      [] outcome = "file_failed"    ->
             << "extract_content", "save_page", "save_page_to_file" >>
      [] OTHER ->
             << "extract_content", "save_page", "save_page_to_file", "random_delay" >>

\* the rest of the iteration, then finally: task_done()
RunRest(outcome) ==
    /\ wk.pc = "extract"
    /\ wk' = [ wk EXCEPT !.pc = "get", !.attempt = 0,
                         !.calls = @ \o CallsOf(outcome) \o << "task_done" >> ]
    /\ UNCHANGED << system_vars, rt, probe, pw, api, st >>

InitW == Init /\ site = 1 /\ MAX_DEPTH = 0

NextW ==
    \/ \E items \in WorkQueues : RunStart(items)
    \/ RunGet
    \/ RunGotoOk
    \/ RunGotoFail
    \/ \E outcome \in Outcomes : RunRest(outcome)

SpecW == InitW /\ [][NextW]_vars

\* ------------------------------------------------------------------------
\* playwright_utils on its own: the crawler task and the worker tasks, which
\* main has just created, each begin with page = await new_page(); main
\* calls close_browser() when all of them are done.  Starting the driver
\* and launching chromium are awaited, so other tasks run meanwhile.
\* ------------------------------------------------------------------------

\* the instance a start or launch call returns: one not handed out before
NewInstance(made) == Cardinality(made) + 1

\* the task's first statement, new_page(), calls get_browser(), which tests
\* _browser is None: if so it awaits async_playwright().start(), otherwise
\* it returns _browser
GetBrowser(t) ==
    /\ pw.pc[t] = "idle"
    /\ pw' = IF pw._browser = 0
               THEN [ pw EXCEPT !.pc[t] = "start" ]
               ELSE [ pw EXCEPT !.pc[t] = "new_page", !.browser[t] = pw._browser ]
    /\ UNCHANGED << system_vars, rt, probe, wk, api, st >>

\* the driver has started: _playwright is assigned, chromium.launch awaited
PlaywrightStart(t) ==
    /\ pw.pc[t] = "start"
    /\ pw' = [ pw EXCEPT !.pc[t] = "launch",
                         !._playwright = NewInstance(pw.started),
                         !.started = @ \cup { NewInstance(pw.started) } ]
    /\ UNCHANGED << system_vars, rt, probe, wk, api, st >>

\* chromium has been launched: _browser is assigned and returned
BrowserLaunch(t) ==
    /\ pw.pc[t] = "launch"
    /\ pw' = [ pw EXCEPT !.pc[t] = "new_page",
                         !._browser = NewInstance(pw.launched),
                         !.launched = @ \cup { NewInstance(pw.launched) },
                         !.browser[t] = NewInstance(pw.launched) ]
    /\ UNCHANGED << system_vars, rt, probe, wk, api, st >>

\* page = await browser.new_page(): the page belongs to the browser that
\* get_browser returned to this task
BrowserNewPage(t) ==
    /\ pw.pc[t] = "new_page"
    /\ pw' = [ pw EXCEPT !.pc[t] = "done", !.page[t] = pw.browser[t] ]
    /\ UNCHANGED << system_vars, rt, probe, wk, api, st >>

\* close_browser(): closes _browser and stops _playwright if they are set,
\* and resets both
CloseBrowser ==
    /\ pw.main = "run"
    /\ \A t \in Tasks : pw.pc[t] = "done"
    /\ pw' = [ pw EXCEPT !.main = "closed",
                         !.closed = IF pw._browser # 0
                                      THEN @ \cup { pw._browser } ELSE @,
                         !._browser = 0,
                         !.stopped = IF pw._playwright # 0
                                       THEN @ \cup { pw._playwright } ELSE @,
                         !._playwright = 0 ]
    /\ UNCHANGED << system_vars, rt, probe, wk, api, st >>

InitB == Init /\ site = 1 /\ MAX_DEPTH = 0

NextB ==
    \/ \E t \in Tasks : GetBrowser(t)
    \/ \E t \in Tasks : PlaywrightStart(t)
    \/ \E t \in Tasks : BrowserLaunch(t)
    \/ \E t \in Tasks : BrowserNewPage(t)
    \/ CloseBrowser

SpecB == InitB /\ [][NextB]_vars

\* ------------------------------------------------------------------------
\* api.py on its own: /answer and /process_site requests, up to MaxRequests
\* of them, handled on one event loop.  Each handler awaits run_in_executor,
\* so other handlers run between its two halves.  A turn (question, answer)
\* is named by the number of the request that made it.
\*   api.reqs[r]   the r-th request: kind, session_id, pc ("executor", "ok",
\*                 "failed"), the handler's local history, and the requests
\*                 that were in the executor when it arrived
\*   api.served    history: the requests that returned ok, in that order
\* ------------------------------------------------------------------------

\* session_id of a payload: "None" for a payload without one, or the name
\* of a session
SessionIds == { "None", "a" }

\* the requests whose handler is awaiting the executor
InExecutor == { r \in DOMAIN api.reqs : api.reqs[r].pc = "executor" }

\* "session_id = payload.session_id or '__default__'"
KeyOf(session_id) == IF session_id = "None" THEN "__default__" ELSE session_id

\* history[-n:] as Python computes it: the last n items, and, since -0 is 0,
\* the whole list when n is 0
Slice(history, n) ==
    IF n = 0 THEN history ELSE SubSeq(history, Len(history) - n + 1, Len(history))

\* "if len(history) > _MAX_TURNS: history = history[-_MAX_TURNS:]"
Trimmed(history, max_turns) ==
    IF Len(history) > max_turns THEN Slice(history, max_turns) ELSE history

\* the module is imported: _MAX_TURNS = int(os.getenv("MAX_CHAT_TURNS", "5"))
ApiImport(max_turns) ==
    /\ api.pc = "idle"
    /\ api' = [ api EXCEPT !.pc = "serving", !._MAX_TURNS = max_turns ]
    /\ UNCHANGED << system_vars, rt, probe, wk, pw, st >>

\* a request arrives and its handler runs up to "await loop.run_in_executor":
\* answer has read history = _SESSION_HISTORY.get(session_id, [])
Request(kind, session_id) ==
    /\ api.pc = "serving"
    /\ Len(api.reqs) < MaxRequests
    /\ api' = [ api EXCEPT !.reqs = Append(@,
                   [ kind |-> kind, session_id |-> session_id, pc |-> "executor",
                     history |-> IF kind = "answer"
                                 THEN api._SESSION_HISTORY[KeyOf(session_id)]
                                 ELSE << >>,
                     among |-> InExecutor ]) ]
    /\ UNCHANGED << system_vars, rt, probe, wk, pw, st >>

\* core.answer_question returned: the turn is appended to the local history,
\* which is trimmed and stored
AnswerOk(r) ==
    /\ r \in InExecutor
    /\ api.reqs[r].kind = "answer"
    /\ LET history == Trimmed(Append(api.reqs[r].history, r), api._MAX_TURNS)
       IN  api' = [ api EXCEPT !.reqs[r].pc = "ok", !.reqs[r].history = history,
                               !._SESSION_HISTORY[KeyOf(api.reqs[r].session_id)] = history,
                               !.served = Append(@, r) ]
    /\ UNCHANGED << system_vars, rt, probe, wk, pw, st >>

\* core.process_site returned: "if payload.session_id: _SESSION_HISTORY.pop(...)"
ProcessSiteOk(r) ==
    /\ r \in InExecutor
    /\ api.reqs[r].kind = "process_site"
    /\ api' = [ api EXCEPT !.reqs[r].pc = "ok",
                           !._SESSION_HISTORY =
                               IF api.reqs[r].session_id # "None"
                               THEN [ @ EXCEPT ![api.reqs[r].session_id] = << >> ]
                               ELSE @,
                           !.served = Append(@, r) ]
    /\ UNCHANGED << system_vars, rt, probe, wk, pw, st >>

\* the executor call raised: "except Exception: raise HTTPException(500)"
RequestFails(r) ==
    /\ r \in InExecutor
    /\ api' = [ api EXCEPT !.reqs[r].pc = "failed" ]
    /\ UNCHANGED << system_vars, rt, probe, wk, pw, st >>

InitA == Init /\ site = 1 /\ MAX_DEPTH = 0

NextA ==
    \/ \E max_turns \in 0..MaxTurnsCfg : ApiImport(max_turns)
    \/ \E kind \in { "answer", "process_site" }, session_id \in SessionIds :
           Request(kind, session_id)
    \/ \E r \in 1..MaxRequests : AnswerOk(r)
    \/ \E r \in 1..MaxRequests : ProcessSiteOk(r)
    \/ \E r \in 1..MaxRequests : RequestFails(r)

SpecA == InitA /\ [][NextA]_vars

\* ------------------------------------------------------------------------
\* db_manager on its own under two concurrent /process_site requests for two
\* sites: api.process_site hands core.process_site to an executor thread,
\* which calls asyncio.run(run_scraper(site_link)); both runs import the one
\* db_manager module and so share _DB_PATH.  The threads interleave at
\* every step.
\*   st.rows    history: [path, run, page] for each row save_page wrote
\*   st.tables  the database files init_db created the pages table in
\* ------------------------------------------------------------------------

\* "host = (parsed.netloc or 'site').replace(':', '_')" for the hosts of RunSeed
HostFileName(netloc) ==
    CASE netloc = "one.example"      -> "one.example"
      [] netloc = "two.example:8080" -> "two.example_8080"
      [] OTHER                       -> "site"

\* _db_path_for_site: data/<host>.scraper.db
db_path_for_site(seed_url) ==
    << "data", HostFileName(urlparse(seed_url).netloc), ".scraper.db" >>

\* main: db_path = _db_path_for_site(seed); set_db_path(db_path)
SetDbPath(run) ==
    /\ st.pc[run] = "idle"
    /\ st' = [ st EXCEPT !.pc[run] = "init_db",
                         !.db_path[run] = db_path_for_site(RunSeed[run]),
                         !._DB_PATH = db_path_for_site(RunSeed[run]) ]
    /\ UNCHANGED << system_vars, rt, probe, wk, pw, api >>

\* main: await init_db(), which connects to _DB_PATH as it is now
InitDb(run) ==
    /\ st.pc[run] = "init_db"
    /\ st' = [ st EXCEPT !.pc[run] = "scraping", !.tables = @ \cup { st._DB_PATH } ]
    /\ UNCHANGED << system_vars, rt, probe, wk, pw, api >>

\* a worker of the run calls save_page, which connects to _DB_PATH as it is
\* now and inserts the row
SavePage(run) ==
    /\ st.pc[run] = "scraping"
    /\ st.saved[run] < MaxPages
    /\ st' = [ st EXCEPT !.saved[run] = @ + 1,
                         !.rows = @ \cup { [ path |-> st._DB_PATH, run |-> run,
                                             page |-> st.saved[run] + 1 ] } ]
    /\ UNCHANGED << system_vars, rt, probe, wk, pw, api >>

\* the run's workers are done: main returns db_path
RunReturns(run) ==
    /\ st.pc[run] = "scraping"
    /\ st' = [ st EXCEPT !.pc[run] = "done" ]
    /\ UNCHANGED << system_vars, rt, probe, wk, pw, api >>

InitS == Init /\ site = 1 /\ MAX_DEPTH = 0

NextS ==
    \/ \E run \in Runs : SetDbPath(run)
    \/ \E run \in Runs : InitDb(run)
    \/ \E run \in Runs : SavePage(run)
    \/ \E run \in Runs : RunReturns(run)

SpecS == InitS /\ [][NextS]_vars

\* ------------------------------------------------------------------------
\* Properties
\* ------------------------------------------------------------------------

NoDuplicates(s) == \A i, j \in DOMAIN s : s[i] = s[j] => i = j

\* the normalized urls put on each queue over its lifetime, in order
DiscoveryPutUrls == [ i \in DOMAIN discovery_queue.puts |-> discovery_queue.puts[i][1] ]
ScrapePutUrls    == SelectSeq(scrape_queue.puts, LAMBDA item : ~IsSentinel(item))

\* C1: on the DiscoveryQueue and on the URLQueue, whatever add_url and
\* add_url_async calls were made and in whatever order they ran, every
\* normalized url was put on the underlying queue at most once since the
\* queue was created, also when the url has meanwhile been dequeued and
\* marked done
C1_PutAtMostOnce ==
    /\ NoDuplicates(DiscoveryPutUrls)
    /\ NoDuplicates(ScrapePutUrls)

\* an add was made for a url that had been put, dequeued and marked done, and
\* the queue it was made on is idle again
C1_Witness ==
    \E r \in redo :
        LET Q == IF r[1] = "discovery" THEN discovery_queue ELSE scrape_queue
        IN  /\ Q.queue = << >>
            /\ Q.unfinished = 0
            /\ Len(Q.log) > Len(Q.puts)

\* at most one add call per normalized url saw it absent from visited
OneAbsent(Q) ==
    \A i, j \in DOMAIN Q.log :
        (Q.log[i].norm = Q.log[j].norm /\ Q.log[i].absent /\ Q.log[j].absent) => i = j

\* C2: check and insert of an add are atomic towards the other callers of the
\* same queue: however add_url_async tasks and add_url calls interleave, no
\* two of them both see the same normalized url absent from visited (and so
\* both enqueue it)
C2_CheckInsertAtomic ==
    /\ OneAbsent(discovery_queue)
    /\ OneAbsent(scrape_queue)

\* the add_url_async task created first on the scrape queue is still pending
\* while two adds created after it, of the same normalized url, have run
C2_Witness ==
    \E t \in pending :
        /\ t.q = "scrape"
        /\ t.id = 1
        /\ Len(scrape_queue.log) = 2
        /\ \A i \in DOMAIN scrape_queue.log :
               scrape_queue.log[i].norm = normalize_url(t.url)


\* the number of sentinels worker w has dequeued
SentinelsTaken(w) == Count(taken[w], None)

\* the number of sentinels put on the scrape queue so far
SentinelsPut == Count(scrape_queue.puts, None)

AllWorkersDone == \A w \in Workers : worker_pc[w] = "done"

\* C3: with WORKER_COUNT workers started, once the crawler's loop has exited
\* every worker eventually dequeues exactly one sentinel and leaves its loop:
\* none stays blocked in get_url() and all the worker tasks complete
C3_WorkersTerminate ==
    (crawler_pc = "done") ~>
        (\A w \in Workers : worker_pc[w] = "done" /\ SentinelsTaken(w) = 1)

\* every worker has left its loop on its own sentinel, and main has not yet
\* noticed that gather is complete
C3_Witness ==
    /\ main_pc = "gather"
    /\ crawler_pc = "done"
    /\ \A w \in Workers : worker_pc[w] = "done" /\ SentinelsTaken(w) = 1

\* C4: main puts exactly WORKER_COUNT sentinels on the scrape queue in a run,
\* and none before the crawler's loop has exited, so that no url is put on the
\* scrape queue after a sentinel
C4_SentinelsAfterCrawl ==
    /\ SentinelsPut \in { 0, WORKER_COUNT }
    /\ SentinelsPut > 0 => crawler_pc = "done"
    /\ main_pc \in { "gather", "close_browser", "done" } <=> SentinelsPut = WORKER_COUNT
    /\ \A i, j \in DOMAIN scrape_queue.puts :
           (IsSentinel(scrape_queue.puts[i]) /\ i < j) => IsSentinel(scrape_queue.puts[j])

\* the sentinels have been put behind at least two urls
C4_Witness ==
    /\ SentinelsPut = WORKER_COUNT
    /\ Len(scrape_queue.puts) >= WORKER_COUNT + 2
    /\ main_pc = "gather"
    /\ \E w \in Workers : worker_pc[w] # "done"

\* C5: a worker leaves its loop only after it has itself dequeued a sentinel:
\* in every reachable state a worker that has left its loop has dequeued
\* exactly one sentinel, and no worker has dequeued more than one
C5_OneSentinelPerWorker ==
    \A w \in Workers :
        /\ SentinelsTaken(w) <= 1
        /\ worker_pc[w] = "done" => SentinelsTaken(w) = 1
        /\ SentinelsTaken(w) = 1 => Last(taken[w]) = None

\* one worker has left its loop on a sentinel while another one is still
\* busy with a url
C5_Witness ==
    \E w1, w2 \in Workers :
        /\ worker_pc[w1] = "done"
        /\ SentinelsTaken(w1) = 1
        /\ worker_pc[w2] = "scrape"
        /\ SentinelsTaken(w2) = 0

\* the urls the workers have dequeued
TakenUrls == UNION { Range(taken[w]) : w \in Workers } \ { None }

\* C6: no scrape work is lost at shutdown: by the time the last worker has
\* left its loop, every url the crawler put on the scrape queue has been
\* dequeued by a worker, which called page.goto for it, and the scrape queue
\* holds neither a url nor a sentinel
C6_NoScrapeWorkLost ==
    AllWorkersDone =>
        /\ scrape_queue.queue = << >>
        /\ Range(ScrapePutUrls) \subseteq TakenUrls
        /\ Range(ScrapePutUrls) \subseteq attempted
        /\ scrape_queue.unfinished = 0

\* all the workers have left their loops after two or more urls went through
\* the scrape queue, and one worker dequeued two urls before its sentinel
C6_Witness ==
    /\ AllWorkersDone
    /\ Len(ScrapePutUrls) >= 2
    /\ \E w \in Workers : Len(taken[w]) >= 3


\* the hrefs of the page at url that the crawler's filters let through
ChildLinks(url) ==
    { normalize_url(Hrefs(url)[i]) : i \in DOMAIN Hrefs(url) } \cap
    { link \in { normalize_url(Hrefs(url)[i]) : i \in DOMAIN Hrefs(url) } :
          is_internal_url(link, seed) /\ is_probably_html_url(link) }

\* C7: every (url, depth) item dequeued from the discovery queue has
\* depth <= MAX_DEPTH; processing an item of depth MAX_DEPTH puts no child of
\* depth MAX_DEPTH + 1 on the queue; with MAX_DEPTH = 0 only the seed page is
\* crawled
C7_DepthBound ==
    /\ \A i \in DOMAIN discovery_queue.puts : discovery_queue.puts[i][2] <= MAX_DEPTH
    /\ \A i \in DOMAIN crawl_log : crawl_log[i][2] <= MAX_DEPTH
    /\ cur # None => cur[2] <= MAX_DEPTH
    /\ MAX_DEPTH = 0 =>
          /\ \A i \in DOMAIN discovery_queue.puts :
                 discovery_queue.puts[i] = <<normalize_url(seed), 0>>
          /\ \A i \in DOMAIN crawl_log : crawl_log[i][1] = normalize_url(seed)
          /\ cur # None => cur[1] = normalize_url(seed)

\* the crawler read the anchors of a page below the seed, of depth MAX_DEPTH,
\* that links to an internal page never put on the discovery queue
C7_Witness ==
    \E i \in DOMAIN crawl_log :
        /\ MAX_DEPTH >= 1
        /\ crawl_log[i][2] = MAX_DEPTH
        /\ crawl_log[i][3] = "ok"
        /\ ChildLinks(crawl_log[i][1]) \ discovery_queue.visited # {}

\* C8: whatever per-url failures occur, in the crawler and in the workers, a
\* fairly scheduled run over the finitely many pages of a site ends: the
\* crawler's loop exits, every worker leaves its loop, main closes the
\* browser and returns
C8_RunTerminates ==
    <>( /\ main_pc = "done"
        /\ browser = "closed"
        /\ crawler_pc = "done"
        /\ AllWorkersDone )

\* main has returned from a run in which a crawler navigation failed and a
\* worker gave up a url that never reached the pages table
C8_Witness ==
    /\ main_pc = "done"
    /\ browser = "closed"
    /\ \E i \in DOMAIN crawl_log : crawl_log[i][3] = "nav_failed"
    /\ TakenUrls \ db # {}

\* the urls whose navigation failed in the crawler
NavFailed == { crawl_log[i][1] : i \in { j \in DOMAIN crawl_log : crawl_log[j][3] = "nav_failed" } }

\* C9: when the crawler's page.goto for a dequeued url fails, the url is not
\* put on the scrape queue, no child link of it is put on the discovery
\* queue, and the loop goes on with the next pending item
C9_CrawlerNavFailure ==
    /\ [](NavFailed \cap scrape_queue.visited = {})
    /\ [](NavFailed \cap Range(ScrapePutUrls) = {})
    /\ [][ CrawlerGotoFail =>
             /\ scrape_queue' = scrape_queue
             /\ discovery_queue'.puts = discovery_queue.puts
             /\ discovery_queue'.visited = discovery_queue.visited
             /\ discovery_queue'.queue = discovery_queue.queue
             /\ crawler_pc' = "loop" ]_vars

\* a navigation failed while another item was pending, and the crawler went
\* on to process that item
C9_Witness ==
    \E i \in DOMAIN crawl_log :
        /\ crawl_log[i][3] = "nav_failed"
        /\ i < Len(crawl_log)
        /\ crawl_log[i + 1][3] = "ok"

\* a worker's iteration fails: page.goto raised on the last attempt, or
\* extract_content, save_page or save_page_to_file raised
WorkerIterationFails(w) ==
    \/ WorkerGotoFail(w)
    \/ \E outcome \in Outcomes : WorkerScrapeFail(w, outcome)

\* C10: a failure while a worker processes a url never ends the worker: the
\* url is dropped, put back on neither queue, and the worker goes on to
\* dequeue its next item
C10_WorkerSurvivesFailure ==
    [][ \A w \in Workers :
          WorkerIterationFails(w) =>
             /\ worker_pc'[w] = "get"
             /\ worker_url'[w] = None
             /\ scrape_queue'.queue = scrape_queue.queue
             /\ scrape_queue'.puts = scrape_queue.puts
             /\ discovery_queue' = discovery_queue ]_vars

\* a worker dequeued a url after one it took through all the navigation
\* attempts without a row reaching the pages table
C10_Witness ==
    \E w \in Workers : \E i \in DOMAIN taken[w] :
        /\ i < Len(taken[w])
        /\ taken[w][i] \notin db
        /\ taken[w][i] \in attempted
        /\ ~IsSentinel(taken[w][i + 1])


\* the number of times retry_async has called the operation
RetryCalls == Len(rt.outcomes)

RECURSIVE SumWaits(_)
SumWaits(ws) == IF ws = << >> THEN 0 ELSE Head(ws).wait - Head(ws).jitter + SumWaits(Tail(ws))

\* C11: retry_async calls the operation at most "retries" times; the wait
\* after failed attempt i is delay * backoff^(i-1) plus a jitter of at most
\* one second, and there is no wait after the last attempt; with retries=3,
\* delay=2, backoff=2 and an operation that always fails, the operation is
\* called 3 times and the waits add up to 2 + 4 = 6 seconds plus jitter
C11_RetryBound ==
    /\ RetryCalls <= rt.retries
    /\ \A i \in DOMAIN rt.waits :
           /\ rt.waits[i].wait - rt.waits[i].jitter = rt.delay * Pow(rt.backoff, i - 1)
           /\ rt.waits[i].jitter \in 0..1000
    /\ Len(rt.waits) <= RetryCalls
    /\ rt.pc = "raised" => RetryCalls = rt.retries /\ Len(rt.waits) = rt.retries - 1
    /\ (rt.pc = "raised" /\ rt.retries = 3 /\ rt.delay = 2000 /\ rt.backoff = 2) =>
           /\ RetryCalls = 3
           /\ SumWaits(rt.waits) = 6000
           /\ rt.waits[1].wait \in 2000..3000
           /\ rt.waits[2].wait \in 4000..5000

\* retry_async(f, retries=3, delay=2, backoff=2) has raised after f failed
\* three times, with a jitter in both waits
C11_Witness ==
    /\ rt.pc = "raised"
    /\ rt.retries = 3
    /\ rt.delay = 2000
    /\ rt.backoff = 2
    /\ rt.outcomes = << "fail", "fail", "fail" >>
    /\ \A i \in DOMAIN rt.waits : rt.waits[i].jitter > 0

\* C12: retry_async returns the result of the first attempt that succeeds and
\* does not call the operation after it; when all "retries" attempts fail it
\* raises the failure of the last attempt, not of an earlier one
C12_RetryResult ==
    /\ (rt.pc = "returned" /\ RetryCalls >= 1) =>
           /\ rt.outcomes[RetryCalls] = "ok"
           /\ \A i \in 1..(RetryCalls - 1) : rt.outcomes[i] = "fail"
           /\ rt.result = ValueOf(RetryCalls)
    /\ rt.pc = "raised" =>
           /\ \A i \in DOMAIN rt.outcomes : rt.outcomes[i] = "fail"
           /\ RetryCalls = rt.retries
           /\ rt.error = rt.retries
    /\ \A i \in DOMAIN rt.outcomes : rt.outcomes[i] = "ok" => i = RetryCalls /\ rt.pc = "returned"

\* a call allowed three attempts returned the value of its second attempt,
\* after the first one failed
C12_Witness ==
    /\ rt.pc = "returned"
    /\ rt.retries = 3
    /\ rt.outcomes = << "fail", "ok" >>
    /\ rt.result = ValueOf(2)


\* the urls the crawler has processed, in order
CrawledUrls == [ i \in DOMAIN crawl_log |-> crawl_log[i][1] ]

AllCrawlsOk == \A i \in DOMAIN crawl_log : crawl_log[i][3] = "ok"

\* C13: with seed https://example.com/, MAX_DEPTH = 1, every navigation of
\* the crawler succeeding, and a seed page linking to /about,
\* /about/?utm_source=x and https://cdn.example.com/logo.png, the crawler
\* dequeues and processes exactly https://example.com/ and
\* https://example.com/about, and the scrape queue receives exactly these two
\* urls, once each
C13_ExampleCrawl ==
    (site = 1 /\ MAX_DEPTH = 1 /\ AllCrawlsOk) =>
        /\ Range(CrawledUrls) \subseteq { Root, About }
        /\ Range(ScrapePutUrls) \subseteq { Root, About }
        /\ NoDuplicates(CrawledUrls)
        /\ NoDuplicates(ScrapePutUrls)
        /\ crawler_pc = "done" =>
               /\ CrawledUrls = << Root, About >>
               /\ ScrapePutUrls = << Root, About >>
               /\ discovery_queue.puts = << <<Root, 0>>, <<About, 1>> >>

\* the crawler has finished that run, every navigation having succeeded
C13_Witness ==
    /\ site = 1
    /\ MAX_DEPTH = 1
    /\ seed = Root
    /\ Len(Hrefs(Root)) = 3
    /\ crawler_pc = "done"
    /\ AllCrawlsOk
    /\ Len(crawl_log) = 2


\* C14: normalize_url is idempotent: normalizing a normalized url changes
\* nothing, also for urls whose query values hold percent-encoded characters
\* that parse_qsl decodes and the re-encoding writes back unquoted
C14_NormalizeIdempotent ==
    probe.pc = "twice" => probe.n2 = probe.n1

\* the visited set of a queue after add_url(u) and add_url(v)
VisitedAfter(u, v) == URLQueue_add_url(URLQueue_add_url(NewQueue, u), v).visited

IsWebScheme(scheme) == scheme \in { "http", "https", "HTTPS" }

SentinelsDelivered ==
    UNION { { <<w, i>> : i \in { j \in DOMAIN taken[w] : IsSentinel(taken[w][j]) } } :
            w \in Workers }

\* C17: putting a sentinel on the scrape queue leaves the visited set
\* unchanged and is never deduplicated (n calls put n sentinels); every
\* sentinel put is delivered to exactly one get_url() call; a worker takes a
\* dequeued value for the shutdown signal exactly when it is a sentinel,
\* never when it is a normalized url
C17_Sentinels ==
    /\ [](/\ scrape_queue.visited = Range(ScrapePutUrls)
          /\ SentinelsPut = Cardinality(SentinelsDelivered) + Count(scrape_queue.queue, None)
          /\ \A url \in scrape_queue.visited : ~IsSentinel(url))
    /\ [][ MainSignal =>
             /\ scrape_queue'.visited = scrape_queue.visited
             /\ Count(scrape_queue'.puts, None) = Count(scrape_queue.puts, None) + WORKER_COUNT
             /\ Count(scrape_queue'.queue, None) = Count(scrape_queue.queue, None) + WORKER_COUNT
         ]_vars
    /\ [][ \A w \in Workers :
             (worker_pc[w] = "get" /\ worker_pc'[w] # "get") =>
                 (worker_pc'[w] = "done" <=> IsSentinel(Got(scrape_queue))) ]_vars

\* after urls went through the scrape queue, one worker has dequeued its
\* sentinel and the other sentinels are still queued
C17_Witness ==
    /\ scrape_queue.visited # {}
    /\ Cardinality(SentinelsDelivered) = 1
    /\ Count(scrape_queue.queue, None) = WORKER_COUNT - 1
    /\ \E w \in Workers : worker_pc[w] = "done" /\ Len(taken[w]) >= 2


\* C18: the crawler's loop exits only when discovery is exhausted: once it
\* has exited no discovery item is queued and none is dequeued but not done,
\* every url of the discovery visited set has been dequeued and marked done,
\* and nothing is added to the discovery queue any more
C18_ExitWhenExhausted ==
    /\ [](crawler_pc = "done" =>
             /\ discovery_queue.queue = << >>
             /\ InFlight(discovery_queue) = 0
             /\ discovery_queue.unfinished = 0
             /\ cur = None
             /\ discovery_queue.visited = Range(CrawledUrls))
    /\ [][ crawler_pc = "done" => discovery_queue' = discovery_queue ]_vars

\* the loop has exited after three pages, one of them a failure
C18_Witness ==
    /\ crawler_pc = "done"
    /\ Len(crawl_log) >= 3
    /\ ~AllCrawlsOk
    /\ main_pc = "await_crawler"

\* C19: DiscoveryQueue.has_pending() counts work in flight as pending: it is
\* true in every state where an item has been dequeued by get_url() and
\* task_done() has not yet been called for it, even when the underlying queue
\* holds no item
C19_InFlightIsPending ==
    InFlight(discovery_queue) > 0 => has_pending(discovery_queue)

\* the number of get_url() and of task_done() calls on the discovery queue
DiscoveryDequeues == Len(discovery_queue.puts) - Len(discovery_queue.queue)
DiscoveryDones == Len(discovery_queue.puts) - discovery_queue.unfinished

\* C20: for every item the crawler dequeues from the discovery queue
\* task_done() is called exactly once, after all of the item's child
\* enqueues, whether navigation and link extraction succeed or fail: the
\* task_done() calls never outnumber the dequeues and equal them once the
\* loop has exited
C20_DoneOncePerItem ==
    /\ [](/\ DiscoveryDones <= DiscoveryDequeues
          /\ DiscoveryDones = Len(crawl_log)
          /\ DiscoveryDequeues - DiscoveryDones = (IF cur = None THEN 0 ELSE 1)
          /\ crawler_pc = "done" => DiscoveryDones = DiscoveryDequeues)
    /\ [][ (crawler_pc # "unstarted" /\ discovery_queue'.puts # discovery_queue.puts) =>
              /\ cur # None
              /\ crawl_log' = Append(crawl_log, <<cur[1], cur[2], "ok">>)
              /\ DiscoveryDones' = DiscoveryDones + 1 ]_vars

\* the loop has exited after an item that enqueued children and a later item
\* that failed
C20_Witness ==
    /\ crawler_pc = "done"
    /\ \E i, j \in DOMAIN crawl_log :
           crawl_log[i][3] = "ok" /\ crawl_log[j][3] # "ok" /\ i < j
    /\ Len(discovery_queue.puts) >= 3
    /\ main_pc = "gather"


\* the number of get_url() and of task_done() calls on the scrape queue
ScrapeDequeues == Len(scrape_queue.puts) - Len(scrape_queue.queue)
ScrapeDones == Len(scrape_queue.puts) - scrape_queue.unfinished

\* the values workers 1..n have dequeued, and those of them whose
\* iteration is still running
RECURSIVE TakenBy(_)
TakenBy(n) == IF n = 0 THEN 0 ELSE Len(taken[n]) + TakenBy(n - 1)

Holding == { w \in Workers : worker_url[w] # None }

\* worker w dequeues the sentinel, or ends the iteration of the url it holds
WorkerFinishesValue(w) ==
    \/ worker_pc[w] = "get" /\ Len(taken'[w]) = Len(taken[w]) + 1
                            /\ IsSentinel(Last(taken'[w]))
    \/ worker_url[w] # None /\ worker_url'[w] = None

\* C21: for every value a worker dequeues from the scrape queue, the sentinel
\* included, that worker calls task_done() exactly once, whether the iteration
\* succeeds or fails: the task_done() calls equal the values dequeued less
\* the urls still being processed, each step in which a worker finishes a
\* value lowers the unfinished count by one and no other step lowers it, and
\* once all workers have left their loops the unfinished count is zero
C21_WorkerDoneOncePerValue ==
    /\ [](/\ ScrapeDequeues = TakenBy(WORKER_COUNT)
          /\ ScrapeDones = ScrapeDequeues - Cardinality(Holding)
          /\ \A w \in Workers :
                 worker_url[w] # None <=> worker_pc[w] \in { "goto", "scrape" }
          /\ AllWorkersDone => scrape_queue.unfinished = 0 /\ ScrapeDones = ScrapeDequeues)
    /\ [][ \A w \in Workers :
             WorkerFinishesValue(w) =>
                 scrape_queue'.unfinished = scrape_queue.unfinished - 1 ]_vars
    /\ [][ scrape_queue'.unfinished < scrape_queue.unfinished =>
             \E w \in Workers :
                 /\ WorkerFinishesValue(w)
                 /\ \A v \in Workers \ {w} : ~WorkerFinishesValue(v) ]_vars

\* all the workers have left their loops; one of them had dequeued a url whose
\* navigation failed at every attempt and a url that was saved
C21_Witness ==
    /\ AllWorkersDone
    /\ scrape_queue.unfinished = 0
    /\ \E w \in Workers : \E i, j \in DOMAIN taken[w] :
           /\ taken[w][i] \in db
           /\ ~IsSentinel(taken[w][j])
           /\ taken[w][j] \notin db
           /\ IsSentinel(Last(taken[w]))


\* the urls the crawler has called page.goto with, in order
Navigated == CrawledUrls \o (IF cur = None THEN << >> ELSE << cur[1] >>)

\* the adds made on the discovery queue for a url already in its visited set
DiscoveryRepeats ==
    { discovery_queue.log[i].norm :
          i \in { j \in DOMAIN discovery_queue.log : ~discovery_queue.log[j].absent } }

\* C22: the crawler navigates to each distinct normalized url at most once in
\* a run: a url whose navigation failed is not navigated to again and is not
\* put on the discovery queue again, also when a later page links to it; and
\* when the loop has exited the crawler has navigated exactly once to every
\* url ever put on the discovery queue
C22_NavigatedOnce ==
    /\ NoDuplicates(Navigated)
    /\ Range(Navigated) \subseteq Range(DiscoveryPutUrls)
    /\ \A url \in NavFailed :
           /\ Count(DiscoveryPutUrls, url) = 1
           /\ Count(Navigated, url) = 1
           /\ \A i \in DOMAIN discovery_queue.queue : discovery_queue.queue[i][1] # url
    /\ crawler_pc = "done" =>
           /\ Range(Navigated) = Range(DiscoveryPutUrls)
           /\ Len(Navigated) = Len(DiscoveryPutUrls)
           /\ \A url \in Range(DiscoveryPutUrls) : Count(Navigated, url) = 1

\* the loop has exited; the navigation to one url failed, a page crawled
\* after it linked to that url again, and that add was dropped
C22_Witness ==
    /\ crawler_pc = "done"
    /\ \E i, j \in DOMAIN crawl_log :
           /\ i < j
           /\ crawl_log[i][3] = "nav_failed"
           /\ crawl_log[j][3] = "ok"
           /\ crawl_log[j][2] < MAX_DEPTH
           /\ crawl_log[i][1] \in ChildLinks(crawl_log[j][1])
           /\ crawl_log[i][1] \in DiscoveryRepeats


\* the urls a worker has dequeued and finished with
Finished(w) ==
    { taken[w][i] : i \in { j \in DOMAIN taken[w] :
                              /\ ~IsSentinel(taken[w][j])
                              /\ j < Len(taken[w]) \/ worker_url[w] = None } }

\* C23: for each url a worker dequeues, page.goto runs under
\* retry_async(retries=2, delay=1.5): it is called at least once and at most
\* twice; the second call is made only after the first one failed and the
\* backoff sleep that follows it; after the second failure the url is
\* dropped: nothing is extracted or saved and the worker dequeues its next item
C23_NavigationRetry ==
    /\ [](\A w \in Workers :
             /\ worker_url[w] # None => attempt[w] \in { 1, 2 }
             /\ worker_url[w] = None => attempt[w] = 0
             /\ Finished(w) \subseteq attempted)
    /\ [][ \A w \in Workers :
             /\ WorkerGetUrl(w) => attempt'[w] = 1 /\ worker_pc'[w] = "goto"
             /\ (attempt'[w] = 2 /\ attempt[w] # 2) =>
                    attempt[w] = 1 /\ WorkerGotoRetry(w)
             /\ WorkerGotoFail(w) =>
                    /\ attempt[w] = 2
                    /\ db' = db
                    /\ worker_pc'[w] = "get"
                    /\ worker_url'[w] = None ]_vars

\* a worker is making the second page.goto call for a url, after it dropped
\* the url it had dequeued before
C23_Witness ==
    \E w \in Workers :
        /\ worker_pc[w] = "goto"
        /\ attempt[w] = 2
        /\ Len(taken[w]) = 2
        /\ taken[w][1] \in attempted
        /\ taken[w][1] \notin db


\* Ground truth about the links of the model's sites, stated on their text
\* and not through url_utils: the hosts that are not the seed's, and the
\* files that are not documents
OffDomainHosts == { "cdn.example.com", "other.com" }
AssetFiles == { "logo.png", "doc.pdf" }

LeavesSiteOrAsset(url) == url[3] \in OffDomainHosts \/ Last(url) \in AssetFiles

\* every href of every page of the model's sites, and the form in which the
\* discovery queue would hold it: crawler.py normalizes the link, add_url_async
\* normalizes it again
AllHrefs ==
    UNION { UNION { Range(AllSites[s].hrefs[page]) : page \in DOMAIN AllSites[s].hrefs } :
                s \in DOMAIN AllSites }

Enqueued == [ href \in AllHrefs |-> normalize_url(normalize_url(href)) ]

\* the hrefs of the pages the crawler has read the anchors of
HrefsRead ==
    UNION { Range(Hrefs(crawl_log[i][1])) :
                i \in { j \in DOMAIN crawl_log : crawl_log[j][3] = "ok" } }

Discoverers(url) ==
    { j \in DOMAIN crawl_log :
          /\ crawl_log[j][3] = "ok"
          /\ crawl_log[j][2] < MAX_DEPTH
          /\ \E href \in Range(Hrefs(crawl_log[j][1])) :
                 url = Enqueued[href] /\ ~LeavesSiteOrAsset(url) }

\* C25: the seed is enqueued with depth 0; every other discovery item has the
\* depth of the page on which it was first discovered, plus 1; and the depth
\* of a url never changes once it is enqueued, also when the url is discovered
\* again on a page of another depth: the item keeps its place and its depth in
\* the history of puts, and is dequeued with that depth
C25_DepthTagging ==
    /\ [](\A i \in DOMAIN discovery_queue.puts :
             LET item == discovery_queue.puts[i]
             IN  IF i = 1
                 THEN item = << normalize_url(seed), 0 >>
                 ELSE /\ Discoverers(item[1]) # {}
                      /\ \E j \in Discoverers(item[1]) :
                             /\ \A k \in Discoverers(item[1]) : j <= k
                             /\ item[2] = crawl_log[j][2] + 1)
    /\ [](/\ NoDuplicates(DiscoveryPutUrls)
          /\ Range(discovery_queue.queue) \subseteq Range(discovery_queue.puts)
          /\ cur # None => cur \in Range(discovery_queue.puts)
          /\ \A j \in DOMAIN crawl_log :
                 << crawl_log[j][1], crawl_log[j][2] >> \in Range(discovery_queue.puts))
    /\ [][ /\ Len(discovery_queue'.puts) >= Len(discovery_queue.puts)
           /\ \A i \in DOMAIN discovery_queue.puts :
                  discovery_queue'.puts[i] = discovery_queue.puts[i] ]_vars

\* a url enqueued and dequeued at depth 1 was found again on another page
\* of depth 1, which would have given it depth 2
C25_Witness ==
    \E i \in DOMAIN discovery_queue.puts :
        LET item == discovery_queue.puts[i]
        IN  /\ item[2] = 1
            /\ item[1] \in DiscoveryRepeats
            /\ \E k \in Discoverers(item[1]) : crawl_log[k][2] = 1
            /\ \E j \in DOMAIN crawl_log : crawl_log[j][1] = item[1] /\ crawl_log[j][2] = 1


\* the add calls of the queue harness, by queue and url
DiscoveryAdd(url) ==
    \/ \E t \in pending : t.url = url /\ DQRunTask(t)
    \/ DQAddUrl(url)

ScrapeAdd(url) ==
    \/ \E t \in pending : t.url = url /\ SQRunTask(t)
    \/ SQAddUrl(url)

\* what asyncio.Queue and the visited set hold is the same in Q and R
SameContents(Q, R) ==
    /\ R.queue = Q.queue
    /\ R.visited = Q.visited
    /\ R.unfinished = Q.unfinished
    /\ R.puts = Q.puts

\* C26: an add of a url whose normalized form is already in the queue's
\* visited set is a silent no-op: the call returns and leaves the pending
\* items, the visited set and the count of unfinished tasks as they were, on
\* both queues, for add_url and add_url_async, and on the discovery queue
\* whatever depth is given
C26_DuplicateAddNoOp ==
    [][ \A url \in HarnessUrls :
          /\ (DiscoveryAdd(url) /\ normalize_url(url) \in discovery_queue.visited) =>
                 /\ SameContents(discovery_queue, discovery_queue')
                 /\ Len(discovery_queue'.log) = Len(discovery_queue.log) + 1
          /\ (ScrapeAdd(url) /\ normalize_url(url) \in scrape_queue.visited) =>
                 /\ SameContents(scrape_queue, scrape_queue')
                 /\ Len(scrape_queue'.log) = Len(scrape_queue.log) + 1 ]_vars

\* /about was put on the discovery queue with depth 1 and is still pending;
\* two more adds of it, with depths 2 and 3, have returned
C26_Witness ==
    /\ discovery_queue.puts = << << About, 1 >> >>
    /\ discovery_queue.queue = << << About, 1 >> >>
    /\ discovery_queue.unfinished = 1
    /\ Len(discovery_queue.log) = 3
    /\ ~discovery_queue.log[2].absent
    /\ ~discovery_queue.log[3].absent
    /\ calls = 3
    /\ pending = {}


\* the urls the crawler's page.goto has returned for
NavigatedOk ==
    { crawl_log[i][1] : i \in { j \in DOMAIN crawl_log : crawl_log[j][3] # "nav_failed" } }
    \cup (IF crawler_pc = "links" THEN { cur[1] } ELSE {})

\* C27: the crawler is the only producer of scrape queue urls and enqueues a
\* url only after its own navigation to that url succeeded: the scrape
\* queue's visited set is a subset of the discovery queue's visited set, and
\* every url a worker dequeues was dequeued and successfully navigated by the
\* crawler before
C27_ScrapeFromCrawler ==
    /\ scrape_queue.visited \subseteq discovery_queue.visited
    /\ TakenUrls \subseteq NavigatedOk
    /\ Range(ScrapePutUrls) \subseteq NavigatedOk


\* how many times workers 1..n have dequeued url
RECURSIVE TimesTaken(_, _)
TimesTaken(url, n) ==
    IF n = 0 THEN 0 ELSE Count(taken[n], url) + TimesTaken(url, n - 1)

\* C28: each scrape queue item is owned by exactly one worker: however the
\* workers interleave, no url is dequeued twice, by one worker or by two, no
\* two workers hold the same url at the same time, and page.goto and
\* save_page are called for a url only by the worker that holds it, so each
\* url is scraped at most once in a run
C28_OneOwner ==
    /\ [](/\ \A url \in TakenUrls : TimesTaken(url, WORKER_COUNT) = 1
          /\ \A w1, w2 \in Workers :
                 (w1 # w2 /\ worker_url[w1] # None) => worker_url[w1] # worker_url[w2]
          /\ attempted \subseteq TakenUrls
          /\ db \subseteq attempted)
    /\ [][ \A url \in TakenUrls' :
             (url \in attempted' \ attempted \/ url \in db' \ db) =>
                 \E w \in Workers :
                     /\ worker_url[w] = url
                     /\ worker_pc'[w] # worker_pc[w] \/ attempt'[w] # attempt[w]
                     /\ \A v \in Workers \ {w} : worker_url[v] # url ]_vars

\* two workers are busy at the same time with different urls, one saving
\* and one navigating, and one of them is on its second url
C28_Witness ==
    \E w1, w2 \in Workers :
        /\ worker_pc[w1] = "scrape"
        /\ worker_pc[w2] = "goto"
        /\ worker_url[w1] # worker_url[w2]
        /\ Len(taken[w1]) = 2
        /\ taken[w1][1] \in db


\* the depths of the items the crawler has dequeued, in order, and of the
\* items pending
DequeuedDepths ==
    [ i \in DOMAIN crawl_log |-> crawl_log[i][2] ]
    \o (IF cur = None THEN << >> ELSE << cur[2] >>)

PendingDepths == [ i \in DOMAIN discovery_queue.queue |-> discovery_queue.queue[i][2] ]

NonDecreasing(s) == \A i, j \in DOMAIN s : i < j => s[i] <= s[j]

\* C29: discovery is breadth-first by depth: the depths of the items the
\* crawler dequeues never decrease, and no item of depth d+1 is dequeued
\* while an item of depth d is pending in the discovery queue
C29_BreadthFirst ==
    /\ [](/\ NonDecreasing(DequeuedDepths)
          /\ NonDecreasing(DequeuedDepths \o PendingDepths))
    /\ [][ CrawlerLoop =>
             \A i \in DOMAIN discovery_queue.queue :
                 Got(discovery_queue)[2] <= discovery_queue.queue[i][2] ]_vars

\* the crawler has dequeued an item of depth 1 while an item of depth 2,
\* enqueued before that, is pending
C29_Witness ==
    /\ cur # None
    /\ cur[2] = 1
    /\ crawler_pc = "goto"
    /\ \E i \in DOMAIN discovery_queue.queue : discovery_queue.queue[i][2] = 2
    /\ Len(crawl_log) = 2


\* C30: between any two consecutive page fetches by the same worker, the
\* worker performs one randomized polite delay before it dequeues the next
\* url, whether the iteration of the earlier fetch succeeded or failed
C30_PoliteDelay ==
    \A i, j \in DOMAIN wk.calls :
        ( /\ i < j
          /\ wk.calls[i] = "get_url"
          /\ wk.calls[j] = "get_url"
          /\ \A k \in (i + 1)..(j - 1) : wk.calls[k] # "get_url" ) =>
            Count(SubSeq(wk.calls, i, j), "random_delay") = 1


\* no task of the run is using a page: the crawler and every worker have
\* returned, and none holds an item
AllTasksCompleted ==
    /\ crawler_pc = "done"
    /\ cur = None
    /\ \A w \in Workers : worker_pc[w] = "done" /\ worker_url[w] = None

\* a step that leaves every task where it is: no navigation starts or ends
NoTaskStep ==
    /\ crawl_log' = crawl_log
    /\ cur' = cur
    /\ attempted' = attempted
    /\ taken' = taken
    /\ worker_pc' = worker_pc
    /\ crawler_pc' = crawler_pc

\* C31: the shared browser is released last: close_browser() is called only
\* after the crawler task and every one of the WORKER_COUNT worker tasks have
\* completed, so that no navigation of the crawler or of a worker is in
\* flight when the browser is closed or is started after it
C31_BrowserReleasedLast ==
    /\ [](main_pc \in { "close_browser", "done" } => AllTasksCompleted)
    /\ [](browser = "closed" => AllTasksCompleted /\ main_pc = "done")
    /\ [][(main_pc \in { "close_browser", "done" }) => NoTaskStep]_vars
    /\ [][(browser' = "closed" /\ browser # "closed") => MainCloseBrowser]_vars

\* the browser has been closed at the end of a run in which the crawler
\* navigated to three pages and one worker fetched two of them
C31_Witness ==
    /\ browser = "closed"
    /\ main_pc = "done"
    /\ Len(crawl_log) = 3
    /\ \E w \in Workers : Len(taken[w]) = 3
    /\ Cardinality(attempted) = 3


\* C32: one browser instance is shared by the whole run: when the crawler
\* and the workers call new_page() concurrently at startup, the browser is
\* launched at most once, every page is created from that one instance, and
\* close_browser() leaves no launched browser open
C32_SingleBrowser ==
    /\ Cardinality(pw.launched) <= 1
    /\ \A t, u \in Tasks : pw.page[t] # 0 /\ pw.page[u] # 0 => pw.page[t] = pw.page[u]
    /\ pw.main = "closed" => pw.launched \subseteq pw.closed


\* worker w takes the step that ends an iteration after a successful goto
WorkerScrapes(w, outcome) == WorkerScrapeOk(w, outcome) \/ WorkerScrapeFail(w, outcome)

\* the urls some worker dequeued and is no longer working on
Finished_urls == TakenUrls \ { worker_url[w] : w \in Workers }

LinkDistance ==
    << ( Root :> 0 @@ About :> 1 @@ Team :> 2 ),
       ( <<"https", "://", "www.example.com", "/">> :> 0 @@ About :> 1 @@ Team :> 1 ),
       ( Search :> 0 @@ (Search \o <<"?", "q", "=", "R", "%26", "D">>) :> 1 ),
       ( Root :> 0 @@ About :> 1 @@ Team :> 1 @@ History :> 2 @@ Careers :> 2 ) >>

\* the pages within MAX_DEPTH links of the seed
WithinDepth == { u \in DOMAIN LinkDistance[site] : LinkDistance[site][u] <= MAX_DEPTH }

\* C34: coverage despite deduplication: when all navigations succeed, every
\* url reachable from the seed by a chain of at most MAX_DEPTH links that
\* pass the same-domain and likely-document filters has been enqueued on the
\* Discovery Queue and on the Scrape Queue when the crawler finishes, and the
\* depth recorded for it is its shortest link distance from the seed
C34_Coverage ==
    (crawler_pc = "done" /\ AllCrawlsOk) =>
        \A u \in WithinDepth :
            /\ << u, LinkDistance[site][u] >> \in Range(discovery_queue.puts)
            /\ u \in Range(ScrapePutUrls)


\* C35: for every value of retries >= 0, retry_async invokes the operation
\* at least once, and it returns normally only if some invocation of the
\* operation succeeded; otherwise it raises
C35_RetryInvokesOperation ==
    /\ rt.pc \in { "returned", "raised" } => RetryCalls >= 1
    /\ rt.pc = "returned" => \E i \in DOMAIN rt.outcomes : rt.outcomes[i] = "ok"
    /\ (rt.pc \in { "returned", "raised" } /\ "ok" \notin Range(rt.outcomes)) =>
           rt.pc = "raised"


\* C36: the crawler never blocks on the Discovery Queue: it is the queue's
\* only consumer and it tests has_pending() immediately before get_url()
\* with no suspension in between, so the queue is non-empty in every state
\* in which the crawler calls get_url(), and the call returns the head item
C36_CrawlerNeverBlocks ==
    /\ [](crawler_pc # "get_url")
    /\ [][CrawlerLoop =>
            /\ Len(discovery_queue.queue) >= 1
            /\ cur' = Head(discovery_queue.queue)
            /\ discovery_queue'.queue = Tail(discovery_queue.queue)]_vars
    /\ [][Len(discovery_queue'.queue) < Len(discovery_queue.queue) => CrawlerLoop]_vars

\* the crawler has taken the last pending item after having processed
\* another: the queue is empty while workers are scraping
C36_Witness ==
    /\ crawler_pc = "goto"
    /\ Len(crawl_log) >= 1
    /\ discovery_queue.queue = << >>
    /\ Holding # {}


\* the requests that returned ok and concern session key, in that order:
\* its /answer requests and the /process_site requests that name it
ServedFor(key) ==
    SelectSeq(api.served,
              LAMBDA r : \/ api.reqs[r].kind = "answer" /\ KeyOf(api.reqs[r].session_id) = key
                         \/ api.reqs[r].kind = "process_site" /\ api.reqs[r].session_id = key)

RECURSIVE SinceProcessSite(_)
\* the requests of s that follow its last /process_site request
SinceProcessSite(s) ==
    IF s = << >> \/ api.reqs[Last(s)].kind = "process_site"
    THEN << >>
    ELSE Append(SinceProcessSite(SubSeq(s, 1, Len(s) - 1)), Last(s))

\* the n most recent items of s, all of s if it has fewer
MostRecent(s, n) == SubSeq(s, IF Len(s) > n THEN Len(s) - n + 1 ELSE 1, Len(s))

\* the requests were made one after the other: none arrived while another
\* was in the executor
OneAtATime == \A r \in DOMAIN api.reqs : api.reqs[r].among = {}

\* C37: the api's session history is bounded: after any sequence of /answer
\* and /process_site requests, each session's stored history has at most
\* MAX_CHAT_TURNS turns, they are the most recent turns in request order,
\* and a /process_site request that carries a session_id empties that
\* session's history
C37_BoundedHistory ==
    \A key \in SessionKeys :
        /\ Len(api._SESSION_HISTORY[key]) <= api._MAX_TURNS
        /\ OneAtATime =>
               api._SESSION_HISTORY[key] =
                   MostRecent(SinceProcessSite(ServedFor(key)), api._MAX_TURNS)


\* the /answer requests for session key that returned ok
Answered(key) ==
    { r \in Range(api.served) :
        api.reqs[r].kind = "answer" /\ KeyOf(api.reqs[r].session_id) = key }

\* C38: no answered turn is lost from a session: when two /answer requests
\* for the same session_id are in flight at the same time and both complete
\* successfully, with the history staying below MAX_CHAT_TURNS and no
\* /process_site request clearing it, the stored history afterwards contains
\* the turns of both requests
C38_NoTurnLost ==
    \A key \in SessionKeys :
        \A r1, r2 \in Answered(key) :
            ( /\ r1 \in api.reqs[r2].among
              /\ Cardinality(Answered(key)) <= api._MAX_TURNS
              /\ \A r \in Range(ServedFor(key)) : api.reqs[r].kind = "answer" )
            => { r1, r2 } \subseteq Range(api._SESSION_HISTORY[key])


\* the database file of each run's site, written out: data/<host>.scraper.db
\* with ':' in the host replaced by '_'
SiteDatabase ==
    << << "data", "one.example", ".scraper.db" >>,
       << "data", "two.example_8080", ".scraper.db" >> >>

\* C39: per-site storage isolation under concurrency: when process_site runs
\* concurrently for two different sites, each with its own scraper run in an
\* executor thread, every page scraped for a site is saved into that site's
\* own database path and never into the other site's
C39_StorageIsolation ==
    /\ \A row \in st.rows : row.path = SiteDatabase[row.run]
    /\ \A run \in Runs : st.pc[run] # "idle" => st.db_path[run] = SiteDatabase[run]

====
